---- MODULE Spec2Model ----
(***************************************************************************)
(* A model of rotk.py: Observable, Store, the Component lifecycle with its *)
(* hook slots, the selector binding, the Row/Column reconciler and the     *)
(* window registry.  The Python runtime is single-threaded and every call  *)
(* runs to completion, so each operation is an operator from a world       *)
(* record (all the objects' fields) to the world after the call, and each  *)
(* action of a specification is one call made by application code.         *)
(***************************************************************************)
EXTENDS Integers, Sequences, FiniteSets, TLC

VARIABLES
    state,              \* Store._state
    listeners,          \* Store._listeners
    current_store,      \* _CURRENT_STORE: None or the application's Store
    observables,        \* heap of Observable objects: _value, _subscribers
    widgets,            \* heap of native handles (tk widgets)
    dom,                \* Window.dom: TkRegistry._widgets
    root,               \* Component.root
    parent,             \* Component.parent
    disposed,           \* Component._disposed
    subscriptions,      \* Component._subscriptions
    hook_slots,         \* Component._hook_slots
    hook_index,         \* Component._hook_index
    has_hooks,          \* hasattr(component, "_hook_slots")
    root_frame,         \* Row/Column._root_frame
    mounted_children,   \* Row/Column._mounted_children
    child_widgets,      \* Row/Column._child_widgets
    order,              \* Row/Column._order
    children_eager,     \* Row/Column._children_eager
    cls                 \* the class of each container instance: Row or Column

vars == <<state, listeners, current_store, observables, widgets, dom, root,
          parent, disposed, subscriptions, hook_slots, hook_index, has_hooks,
          root_frame, mounted_children, child_widgets, order, children_eager,
          cls>>

-----------------------------------------------------------------------------
(* Bounds of the model *)

\* handles the toolkit may create in one run (the two window frames included)
MaxWidgets == 8
\* longest child list given to a container
MaxChildren == 2
\* longest subscriber list the application builds on its own Observable, and
\* longest listener list it builds on the Store
MaxSubscribers == 3

-----------------------------------------------------------------------------
(* Program constants *)

\* Python's None, for a handle or an Observable reference
None == 0
\* Window._main and Window._overlay, created by Window.__init__
MainFrame == 1
OverlayFrame == 2
\* the Observable the application creates itself and binds a Label to
UserObservable == 1
\* the Store the application creates: state and listeners are its fields
AppStore == 1
\* Row/Column default gaps
gap_x == 6
gap_y == 4
\* the slack of the weight reset range: max(len(order), len(new_ids)) + 4
Slack == 4
\* the fixed size the sized layout of the model asks for
FixedSize == 40

-----------------------------------------------------------------------------
(* The component instances the application constructs.  K is an instance   *)
(* of an application subclass of Row or of Column whose build binds a      *)
(* selector with use_store_selector and then runs the inherited build; A   *)
(* and A2 are two FrameComponent instances with the same id, A binding a   *)
(* selector as TodoHeader does, A2 holding local state; B is a Label whose *)
(* text is bound to an Observable of the application.  H is a              *)
(* FrameComponent the application shows on its own, through the portal:    *)
(* its build keeps local state and then binds a selector.                  *)

Components == {"K", "A", "A2", "B", "H"}

Containers == {"K"}

\* the components the application lists as children of K
Children == {"A", "A2", "B"}

\* Component.id
id(c) ==
    CASE c = "K" -> "root"
      [] c = "A" -> "a"
      [] c = "A2" -> "a"
      [] c = "H" -> "h"
      [] OTHER -> "b"

Ids == {id(c) : c \in Components}

\* which create_widget the instance has
IsContainer(c) == c \in Containers
IsTkWidget(c) == c \in {"B"}

\* the hook accessors the instance's build calls, in order: a selector
\* binding ("selector", with the selector's name) or plain local state
\* ("state", with the initial value)
Hook(kind, arg) == [kind |-> kind, arg |-> arg]

hooks(c) ==
    CASE c = "K" -> <<Hook("selector", "status")>>
      [] c = "A" -> <<Hook("selector", "status")>>
      [] c = "A2" -> <<Hook("state", "x")>>
      [] c = "H" -> <<Hook("state", "x"), Hook("selector", "status")>>
      [] OTHER -> <<>>

\* TkWidget.widget_kwargs: the Observable bound to the widget's text, if any
text_kwarg(c) == IF c = "B" THEN UserObservable ELSE None

\* the values a local state slot or the user's Observable takes
Values == {"x", "y"}

-----------------------------------------------------------------------------
(* Local names, sequences and dicts *)

\* a local name for an intermediate result: the rest of a function body, F,
\* applied to the value v computed so far
Then(v, F(_)) == F(v)

Range(s) == {s[i] : i \in DOMAIN s}

Max(a, b) == IF a >= b THEN a ELSE b

\* list.index: the first position of x in s, 0 when absent
RECURSIVE IndexFrom(_, _, _)
IndexFrom(s, x, i) ==
    IF i > Len(s) THEN 0
    ELSE IF s[i] = x THEN i
    ELSE IndexFrom(s, x, i + 1)

\* list.remove(x) inside try/except ValueError: drops the first x, if any
ListRemove(s, x) ==
    Then(IndexFrom(s, x, 1), LAMBDA i :
         IF i = 0 THEN s
         ELSE [j \in 1..(Len(s) - 1) |-> IF j < i THEN s[j] ELSE s[j + 1]])

\* dict.pop(k, None)
DictPop(f, k) == [x \in (DOMAIN f) \ {k} |-> f[x]]

\* d[k] = v
DictSet(f, k, v) == [x \in (DOMAIN f) \cup {k} |-> IF x = k THEN v ELSE f[x]]

EmptyDict == [x \in {} |-> None]

-----------------------------------------------------------------------------
(* History events *)

\* what happened, to which component, Observable, handle, with which value
\* and, for a call of a callback, which callback
Event(ev, c, o, w, v) ==
    [ev |-> ev, c |-> c, o |-> o, w |-> w, v |-> v,
     cb |-> [kind |-> "", c |-> "", o |-> 0, w |-> 0, arg |-> ""]]

CallEvent(ev, cb, o, v) ==
    [ev |-> ev, c |-> cb.c, o |-> o, w |-> cb.w, v |-> v, cb |-> cb]

Emit(W, e) == [W EXCEPT !.log = Append(@, e)]

Raise(W, err) == [W EXCEPT !.exc = err]

-----------------------------------------------------------------------------
(* The world: every field of every object, as one record, with what a call *)
(* running in it has done so far: log, the calls and effects in order; exc, *)
(* the error being raised, "" if none; ret, the value last returned.       *)

World ==
    [state |-> state, listeners |-> listeners, current_store |-> current_store,
     observables |-> observables, widgets |-> widgets, dom |-> dom,
     root |-> root, parent |-> parent, disposed |-> disposed,
     subscriptions |-> subscriptions, hook_slots |-> hook_slots,
     hook_index |-> hook_index, has_hooks |-> has_hooks,
     root_frame |-> root_frame, mounted_children |-> mounted_children,
     child_widgets |-> child_widgets, order |-> order,
     children_eager |-> children_eager, cls |-> cls,
     log |-> <<>>, exc |-> "", ret |-> None, full |-> FALSE]

-----------------------------------------------------------------------------
(* Callbacks.  A callback is a closure; kind says which function it is and *)
(* the other fields are what it closes over.                               *)

Callback(kind, c, o, w, arg) ==
    [kind |-> kind, c |-> c, o |-> o, w |-> w, arg |-> arg]

\* TkWidget.create_widget._update, closed over the widget w
UpdateCallback(w) == Callback("update", "", None, w, "text")

\* Component.use_store_selector._on_store_change of component c, closed over
\* the Observable o and the selector sel
StoreChangeCallback(c, o, sel) == Callback("sel", c, o, None, sel)

\* an application callback that only returns
Recorder(name) == Callback("rec", "", None, None, name)

\* an application callback that calls the unsubscribe closure of Recorder(name)
Canceller(name) == Callback("cancel", "", None, None, name)

\* an application callback that subscribes Recorder(name) to the Observable,
\* or to the Store, that is notifying it
Adder(name) == Callback("add", "", None, None, name)

\* an application callback that raises
Raiser == Callback("raise", "", None, None, "")

\* an application callback that calls set(value) on the Observable that is
\* notifying it
Resetter(value) == Callback("set", "", None, None, value)

\* an application callback that dispatches SET_STATUS status unless the
\* Store's state has that status
Redispatcher(status) == Callback("dispatch", "", None, None, status)

\* the closure subscribe returns: on_store says which subscribe made it
Unsubscribe(on_store, o, cb) == [on_store |-> on_store, o |-> o, cb |-> cb]

-----------------------------------------------------------------------------
(* Observable *)

\* Observable(value); owner is history: the component whose use_state made
\* it, "" for one the application made
NewObservable(value, owner) ==
    [value |-> value, subscribers |-> <<>>, store_subscribed |-> FALSE,
     owner |-> owner]

\* Observable.subscribe: appends the callback
ObservableSubscribe(W, o, cb) ==
    [W EXCEPT !.observables[o].subscribers = Append(@, cb)]

\* Store.subscribe: appends the listener
StoreSubscribe(W, cb) == [W EXCEPT !.listeners = Append(@, cb)]

\* the unsubscribe closures of Observable.subscribe and Store.subscribe
CallUnsubscribe(W, u) ==
    IF u.on_store
    THEN [W EXCEPT !.listeners = ListRemove(@, u.cb)]
    ELSE [W EXCEPT !.observables[u.o].subscribers = ListRemove(@, u.cb)]

\* how many subscriptions the application holds on its own Observable and
\* on the Store
Held(W) == Len(W.observables[UserObservable].subscribers) + Len(W.listeners)

\* widget.configure(text=v) inside try/except TclError: a destroyed widget
\* raises TclError, which _update swallows
UpdateWidget(W, w, v) ==
    IF W.widgets[w].alive
    THEN [W EXCEPT !.widgets[w].text = v]
    ELSE W

RECURSIVE ObservableSet(_, _, _)
RECURSIVE Redispatch(_, _)

\* one subscriber of Observable o called with v
InvokeSubscriber(W, o, cb, v) ==
    CASE cb.kind = "update" ->
             UpdateWidget(Emit(W, CallEvent("notify", cb, o, v)), cb.w, v)
      [] cb.kind = "cancel" ->
             CallUnsubscribe(Emit(W, CallEvent("notify", cb, o, v)),
                             Unsubscribe(FALSE, o, Recorder(cb.arg)))
      [] cb.kind = "add" ->
             IF Held(W) >= MaxSubscribers THEN [W EXCEPT !.full = TRUE]
             ELSE ObservableSubscribe(Emit(W, CallEvent("notify", cb, o, v)),
                                      o, Recorder(cb.arg))
      [] cb.kind = "raise" ->
             Raise(Emit(W, CallEvent("notify", cb, o, v)), "ValueError")
      [] cb.kind = "set" ->
             ObservableSet(Emit(W, CallEvent("notify", cb, o, v)), o, cb.arg)
      [] cb.kind = "dispatch" ->
             Redispatch(Emit(W, CallEvent("notify", cb, o, v)), cb.arg)
      [] OTHER -> Emit(W, CallEvent("notify", cb, o, v))

\* the loop of set written over the list itself, not over a copy of it
RECURSIVE NotifySubscribersLive(_, _, _, _, _)
NotifySubscribersLive(W, o, snapshot, i, v) ==
    IF i > Len(W.observables[o].subscribers) \/ W.exc # "" \/ W.full THEN W
    ELSE NotifySubscribersLive(
             InvokeSubscriber(W, o, W.observables[o].subscribers[i], v),
             o, snapshot, i + 1, v)

\* the loop of set with each call wrapped in a handler that drops the error
RECURSIVE NotifySubscribersCatching(_, _, _, _, _)
NotifySubscribersCatching(W, o, snapshot, i, v) ==
    IF i > Len(snapshot) THEN W
    ELSE NotifySubscribersCatching(
             [InvokeSubscriber(W, o, snapshot[i], v) EXCEPT !.exc = ""],
             o, snapshot, i + 1, v)

\* for subscriber in snapshot: subscriber(value); an error ends the loop
RECURSIVE NotifySubscribers(_, _, _, _, _)
NotifySubscribers(W, o, snapshot, i, v) ==
    IF i > Len(snapshot) \/ W.exc # "" THEN W
    ELSE NotifySubscribers(InvokeSubscriber(W, o, snapshot[i], v),
                           o, snapshot, i + 1, v)

\* the list Observable.set iterates: list(self._subscribers), a copy taken
\* after the value is stored
SubscriberSnapshot(W, o) == W.observables[o].subscribers

\* set without the equality test of line 33
ObservableSetNoCompare(W, o, v) ==
    IF W.exc # "" THEN W
    ELSE LET w1 == [W EXCEPT !.observables[o].value = v]
         IN NotifySubscribers(w1, o, SubscriberSnapshot(w1, o), 1, v)

\* Observable.set
ObservableSet(W, o, v) ==
    IF W.exc # "" THEN W
    ELSE IF v = W.observables[o].value THEN W
    ELSE Then([W EXCEPT !.observables[o].value = v], LAMBDA w1 :
         NotifySubscribers(w1, o, SubscriberSnapshot(w1, o), 1, v))

-----------------------------------------------------------------------------
(* Placement and sizing records of a native handle *)

NotPlaced ==
    [placed |-> FALSE, row |-> 0, column |-> 0, sticky |-> "",
     padx |-> 0, pady |-> 0]

\* the slots of a frame's axis that the model keeps sizing constraints for
SlotRange == 0..(MaxChildren + Slack - 1)

Unconstrained == [weight |-> 0, minsize |-> 0]

-----------------------------------------------------------------------------
(* TkRegistry.  The entries are weak references; each resolves to its      *)
(* handle for as long as the handle object exists, and every handle of the *)
(* model is held by its component or by the application.                   *)

\* TkRegistry.register: self._widgets[id] = weakref.ref(widget)
register(W, key, widget) == [W EXCEPT !.dom = DictSet(@, key, widget)]

\* TkRegistry.get: the handle registered under id, None when there is none
get(W, key) ==
    [W EXCEPT !.ret = IF key \in DOMAIN W.dom THEN W.dom[key] ELSE None]

\* unregister without the identity test: pops whatever is registered
unregister_by_id(W, key, widget) ==
    IF key \notin DOMAIN W.dom THEN W
    ELSE [W EXCEPT !.dom = DictPop(@, key)]

\* TkRegistry.unregister(id, widget): pops the entry only if it resolves to
\* exactly this widget
unregister(W, key, widget) ==
    IF key \notin DOMAIN W.dom THEN W
    ELSE IF widget # None /\ W.dom[key] # widget THEN W
    ELSE [W EXCEPT !.dom = DictPop(@, key)]

-----------------------------------------------------------------------------
(* Component.dispose and the <Destroy> binding *)

RECURSIVE CallAll(_, _, _)
CallAll(W, unsubs, i) ==
    IF i > Len(unsubs) THEN W
    ELSE CallAll(CallUnsubscribe(W, unsubs[i]), unsubs, i + 1)

\* dispose without the loop over self._subscriptions
KeepSubscriptions(W, c) == W

\* for unsub in self._subscriptions: unsub()
ReleaseSubscriptions(W, c) == CallAll(W, W.subscriptions[c], 1)

\* Component.dispose
dispose(W, c) ==
    IF W.disposed[c] THEN W
    ELSE Then(ReleaseSubscriptions([W EXCEPT !.disposed[c] = TRUE], c),
              LAMBDA w2 :
         Emit([w2 EXCEPT !.subscriptions[c] = <<>>,
                         !.hook_slots[c] = IF w2.has_hooks[c] THEN <<>> ELSE @],
              Event("dispose", c, None, None, "")))

\* _on_destroy unregistering the id whatever it resolves to
on_destroy_by_id(W, comp, widget) ==
    dispose(unregister(W, id(comp), None), comp)

\* Component.mount._on_destroy, for the event of the bound widget itself
on_destroy(W, comp, widget) ==
    dispose(unregister(W, id(comp), widget), comp)

\* the handles created with master h, in creation order
ChildrenOf(W, h) ==
    {k \in DOMAIN W.widgets : W.widgets[k].created /\ W.widgets[k].master = h}

\* what is left of a widget record after destroy: the toolkit forgets its
\* placement, options and sizing constraints
Destroyed(widget) ==
    [widget EXCEPT !.alive = FALSE, !.text = "", !.grid = NotPlaced,
                   !.conf = [i \in SlotRange |-> Unconstrained]]

\* tk destroy of one widget: its children first, then the widget itself,
\* whose <Destroy> binding (Component.mount._on_destroy) unregisters the
\* owner's id if the registry still resolves to this widget and disposes the
\* owner.  Destroying a destroyed widget does nothing.
RECURSIVE DestroyWidget(_, _)

\* a destroy that does not reach the widget's children
DestroyNone(W, hs, k) == W

RECURSIVE DestroyEach(_, _, _)
DestroyEach(W, hs, k) ==
    IF k > MaxWidgets THEN W
    ELSE IF k \in hs THEN DestroyEach(DestroyWidget(W, k), hs, k + 1)
    ELSE DestroyEach(W, hs, k + 1)

DestroyWidget(W, h) ==
    IF ~W.widgets[h].alive THEN W
    ELSE Then(DestroyEach(W, ChildrenOf(W, h), 1), LAMBDA w1 :
         Then(Emit([w1 EXCEPT !.widgets[h] = Destroyed(@)],
                   Event("destroyed", w1.widgets[h].owner, None, h, "")),
              LAMBDA w3 :
              IF w3.widgets[h].owner = "" THEN w3
              ELSE on_destroy(w3, w3.widgets[h].owner, h)))

-----------------------------------------------------------------------------
(* The demo Store: state, actions, reducer, selectors *)

Action(type, payload) == [type |-> type, payload |-> payload]

\* demo_reducer.INITIAL_STATE
INITIAL_STATE ==
    [status |-> "Ready", summary |-> "0 open / 0 done", clear_enabled |-> FALSE,
     tasks |-> <<>>, next_task_id |-> 1]

\* Python's bool() of a string payload: the empty string is false
bool(payload) == payload # ""

\* The text of a task is a sequence of characters.
Whitespace == {" ", "\t", "\n"}

RECURSIVE lstrip(_)
lstrip(text) ==
    IF text # <<>> /\ Head(text) \in Whitespace THEN lstrip(Tail(text))
    ELSE text

RECURSIVE rstrip(_)
rstrip(text) ==
    IF text # <<>> /\ text[Len(text)] \in Whitespace
    THEN rstrip(SubSeq(text, 1, Len(text) - 1))
    ELSE text

\* str.strip
strip(text) == rstrip(lstrip(text))

\* demo_reducer._derive_task_metadata: the summary text and whether any task
\* is done
open_count(tasks) == Len(SelectSeq(tasks, LAMBDA t : ~t.done))

done_count(tasks) == Len(SelectSeq(tasks, LAMBDA t : t.done))

derive_summary(tasks) ==
    ToString(open_count(tasks)) \o " open / "
        \o ToString(done_count(tasks)) \o " done"

\* demo_reducer._assign_tasks
assign_tasks(s, tasks) ==
    [s EXCEPT !.tasks = tasks,
              !.summary = derive_summary(tasks),
              !.clear_enabled = done_count(tasks) > 0]

\* the ADD_TASK branch without the increment of next_task_id
add_task_reusing_id(s, text, next_id) ==
    IF text = <<>> THEN s
    ELSE assign_tasks(s, Append(s.tasks,
                             [id |-> next_id, text |-> text, done |-> FALSE]))

\* the ADD_TASK branch
add_task(s, text, next_id) ==
    IF text = <<>> THEN s
    ELSE assign_tasks([s EXCEPT !.next_task_id = next_id + 1],
                      Append(s.tasks,
                             [id |-> next_id, text |-> text, done |-> FALSE]))

\* the branches that replace the task list: unchanged when the new list
\* does not differ as the branch tests it
replace_tasks(s, new_tasks, changed) ==
    IF ~changed THEN s ELSE assign_tasks(s, new_tasks)

\* the loop of the TOGGLE_TASK_DONE branch
toggled(tasks, task_id) ==
    [i \in 1..Len(tasks) |->
        IF tasks[i].id = task_id
        THEN [tasks[i] EXCEPT !.done = ~tasks[i].done]
        ELSE tasks[i]]

\* demo_reducer.reducer: a shallow copy of the state with the action applied;
\* an action of an unknown type returns the copy unchanged.  The payload of
\* ADD_TASK is a text (a missing one counts as the empty text), the payload
\* of DELETE_TASK and TOGGLE_TASK_DONE a task id or None.
reducer(s, action) ==
    CASE action.type = "SET_STATUS" -> [s EXCEPT !.status = action.payload]
      [] action.type = "SET_SUMMARY" -> [s EXCEPT !.summary = action.payload]
      [] action.type = "SET_CLEAR_ENABLED" ->
             [s EXCEPT !.clear_enabled = bool(action.payload)]
      [] action.type = "ADD_TASK" ->
             add_task(s, strip(action.payload), s.next_task_id)
      [] action.type = "DELETE_TASK" ->
             IF action.payload = None THEN s
             ELSE replace_tasks(s,
                      SelectSeq(s.tasks, LAMBDA t : t.id # action.payload),
                      \E i \in 1..Len(s.tasks) :
                          s.tasks[i].id = action.payload)
      [] action.type = "TOGGLE_TASK_DONE" ->
             IF action.payload = None THEN s
             ELSE replace_tasks(s, toggled(s.tasks, action.payload),
                      \E i \in 1..Len(s.tasks) :
                          s.tasks[i].id = action.payload)
      [] action.type = "CLEAR_DONE_TASKS" ->
             replace_tasks(s, SelectSeq(s.tasks, LAMBDA t : ~t.done),
                      \E i \in 1..Len(s.tasks) : s.tasks[i].done)
      [] OTHER -> s

\* the selectors of TodoHeader.build
selector(sel, s) ==
    CASE sel = "status" -> s.status
      [] sel = "summary" -> s.summary
      [] OTHER -> IF s.clear_enabled THEN "normal" ELSE "disabled"

\* the default equality of use_store_selector: lambda a, b: a == b
equality(a, b) == a = b

\* configure_store(store)
configure_store(W, store) == [W EXCEPT !.current_store = store]

\* get_store: raises when no Store has been configured, else returns the
\* installed one
get_store(W) ==
    IF W.current_store = None THEN Raise(W, "RuntimeError")
    ELSE [W EXCEPT !.ret = W.current_store]

\* Component.use_dispatch: store = get_store(); return store.dispatch
use_dispatch(W) == get_store(W)

-----------------------------------------------------------------------------
(* Hook slots *)

\* use_state without the test "idx >= len(self._hook_slots)": every call
\* makes a new Observable and stores it at the cursor
use_state_reseeding(W, c, initial) ==
    IF W.exc # "" THEN W
    ELSE LET w1 == IF W.has_hooks[c] THEN W
                   ELSE [W EXCEPT !.has_hooks[c] = TRUE,
                                  !.hook_slots[c] = <<>>,
                                  !.hook_index[c] = 0]
             idx == w1.hook_index[c]
             o == Len(w1.observables) + 1
         IN IF idx > Len(w1.hook_slots[c]) THEN Raise(w1, "IndexError")
            ELSE [w1 EXCEPT
                    !.hook_index[c] = idx + 1,
                    !.observables = Append(@, NewObservable(initial, c)),
                    !.hook_slots[c] =
                        [k \in 1..Max(Len(@), idx + 1) |->
                            IF k = idx + 1 THEN o ELSE @[k]],
                    !.ret = o]

\* Component.use_state, up to the slot lookup; leaves the Observable in ret
use_state(W, c, initial) ==
    IF W.exc # "" THEN W
    ELSE Then(IF W.has_hooks[c] THEN W
              ELSE [W EXCEPT !.has_hooks[c] = TRUE,
                             !.hook_slots[c] = <<>>,
                             !.hook_index[c] = 0],
              LAMBDA w1 :
         Then(w1.hook_index[c], LAMBDA idx :
         Then(IF idx >= Len(w1.hook_slots[c])
              THEN [w1 EXCEPT
                      !.hook_index[c] = idx + 1,
                      !.observables = Append(@, NewObservable(initial, c)),
                      !.hook_slots[c] = Append(@, Len(w1.observables) + 1)]
              ELSE [w1 EXCEPT !.hook_index[c] = idx + 1],
              LAMBDA w3 :
              IF idx + 1 > Len(w3.hook_slots[c])
              THEN Raise(w3, "IndexError")
              ELSE [w3 EXCEPT !.ret = w3.hook_slots[c][idx + 1]])))

\* use_store_selector without the test of the _store_subscribed marker: it
\* subscribes in every pass
use_store_selector_resubscribing(W, c, sel) ==
    IF W.exc # "" THEN W
    ELSE LET w0 == get_store(W)
             w1 == use_state(w0, c, selector(sel, w0.state))
             cb == StoreChangeCallback(c, w1.ret, sel)
         IN IF w0.exc # "" THEN w0
            ELSE IF w1.exc # "" THEN w1
            ELSE [StoreSubscribe(w1, cb) EXCEPT
                    !.subscriptions[c] = Append(@, Unsubscribe(TRUE, None, cb)),
                    !.observables[w1.ret].store_subscribed = TRUE]

\* use_store_selector taking its slot before it asks for the Store
use_store_selector_store_last(W, c, sel) ==
    IF W.exc # "" THEN W
    ELSE LET w1 == use_state(W, c, selector(sel, W.state))
             w0 == get_store(w1)
             cb == StoreChangeCallback(c, w1.ret, sel)
         IN IF w1.exc # "" THEN w1
            ELSE IF w0.exc # "" THEN w0
            ELSE IF w1.observables[w1.ret].store_subscribed THEN w1
            ELSE [StoreSubscribe(w1, cb) EXCEPT
                    !.subscriptions[c] = Append(@, Unsubscribe(TRUE, None, cb)),
                    !.observables[w1.ret].store_subscribed = TRUE]

\* Component.use_store_selector
use_store_selector(W, c, sel) ==
    IF W.exc # "" THEN W
    ELSE Then(get_store(W), LAMBDA w0 :
         IF w0.exc # "" THEN w0
         ELSE Then(use_state(w0, c, selector(sel, w0.state)), LAMBDA w1 :
              IF w1.exc # "" THEN w1
              ELSE IF w1.observables[w1.ret].store_subscribed THEN w1
              ELSE Then(StoreChangeCallback(c, w1.ret, sel), LAMBDA cb :
                   [StoreSubscribe(w1, cb) EXCEPT
                      !.subscriptions[c] =
                          Append(@, Unsubscribe(TRUE, None, cb)),
                      !.observables[w1.ret].store_subscribed = TRUE])))

\* the hook calls of one build pass
RECURSIVE RunHooks(_, _, _)
RunHooks(W, c, i) ==
    IF i > Len(hooks(c)) \/ W.exc # "" THEN W
    ELSE RunHooks(IF hooks(c)[i].kind = "selector"
                  THEN use_store_selector(W, c, hooks(c)[i].arg)
                  ELSE use_state(W, c, hooks(c)[i].arg),
                  c, i + 1)

-----------------------------------------------------------------------------
(* Layout options *)

\* RowLayout / ColumnLayout; "None" stands for an alignment or sticky left
\* at None, size is width (Row) or height (Column), None when not given.
\* padx and pady are left at None in every layout of the model.
Layout(expand, size, valign, halign, sticky) ==
    [none |-> FALSE, expand |-> expand, size |-> size, valign |-> valign,
     halign |-> halign, sticky |-> sticky]

\* a child listed without layout options
NoLayout ==
    [none |-> TRUE, expand |-> FALSE, size |-> None, valign |-> "None",
     halign |-> "None", sticky |-> "None"]

\* RowLayout(expand=True, halign=HAlign.STRETCH), as in the demo
StretchLayout == Layout(TRUE, None, "None", "STRETCH", "None")

\* a layout asking for a fixed width (Row) or height (Column), centred
SizedLayout == Layout(FALSE, FixedSize, "None", "CENTER", "None")

\* the layout options the application lists each child with
layout_of(c) ==
    CASE c = "A" -> StretchLayout
      [] c = "A2" -> SizedLayout
      [] OTHER -> NoLayout

\* the sticky letters of an alignment
HAlignSticky(halign) ==
    CASE halign = "LEFT" -> "w"
      [] halign = "RIGHT" -> "e"
      [] halign = "STRETCH" -> "we"
      [] OTHER -> ""

VAlignSticky(valign) ==
    CASE valign = "TOP" -> "n"
      [] valign = "BOTTOM" -> "s"
      [] valign = "STRETCH" -> "ns"
      [] OTHER -> ""

\* Row._row_layout_to_opts; sticky "absent" when the dict gets no such key
row_layout_to_opts(layout) ==
    [sticky |-> IF layout.sticky # "None" THEN layout.sticky
                ELSE IF layout.halign # "None" THEN HAlignSticky(layout.halign)
                ELSE "absent",
     expand |-> layout.expand,
     size |-> layout.size]

\* Column._column_layout_to_opts
column_layout_to_opts(layout) ==
    [sticky |-> IF layout.sticky # "None" THEN layout.sticky
                ELSE IF layout.valign # "None" \/ layout.halign # "None"
                THEN VAlignSticky(layout.valign) \o HAlignSticky(layout.halign)
                ELSE "absent",
     expand |-> layout.expand,
     size |-> layout.size]

\* opts = dict(layout or {}) for a child without layout options
EmptyOpts == [sticky |-> "absent", expand |-> FALSE, size |-> None]

\* the options of one child of container c, after the pops with defaults:
\* sticky "w", padx gap_x, pady gap_y, expand False, width/height None
ResolveOpts(W, c, layout) ==
    Then(IF layout.none THEN EmptyOpts
         ELSE IF W.cls[c] = "Row" THEN row_layout_to_opts(layout)
         ELSE column_layout_to_opts(layout),
         LAMBDA opts :
         [sticky |-> IF opts.sticky = "absent" THEN "w" ELSE opts.sticky,
          padx |-> gap_x, pady |-> gap_y,
          expand |-> opts.expand, size |-> opts.size])

-----------------------------------------------------------------------------
(* Native handles *)

\* a widget just created under master: not placed, no <Destroy> binding yet
FreshWidget(master, text) ==
    [created |-> TRUE, alive |-> TRUE, master |-> master, owner |-> "",
     text |-> text, grid |-> NotPlaced,
     conf |-> [i \in SlotRange |-> Unconstrained]]

\* a handle name the toolkit has not used yet
NoWidget ==
    [created |-> FALSE, alive |-> FALSE, master |-> None, owner |-> "",
     text |-> "", grid |-> NotPlaced,
     conf |-> [i \in SlotRange |-> Unconstrained]]

Handles == 1..MaxWidgets

\* The toolkit names the handles it creates.  The model gives the first
\* handle created for a component a name of its own, and a later one (made
\* when an earlier mount of the component failed half-way) the lowest unused
\* name above those, so that runs differing only in the order of creation
\* meet in the same states.  0 when the model's names are used up.
FirstHandle(c) ==
    CASE c = "K" -> OverlayFrame + 1
      [] c = "A" -> OverlayFrame + 2
      [] c = "A2" -> OverlayFrame + 3
      [] c = "B" -> OverlayFrame + 4
      [] OTHER -> OverlayFrame + 5

SpareHandles(W) ==
    {h \in Handles : h > OverlayFrame + Cardinality(Components)
                     /\ ~W.widgets[h].created}

NextHandle(W, c) ==
    IF ~W.widgets[FirstHandle(c)].created THEN FirstHandle(c)
    ELSE IF SpareHandles(W) = {} THEN None
    ELSE CHOOSE h \in SpareHandles(W) : \A k \in SpareHandles(W) : h <= k

\* widget_cls(parent, ...) in the create_widget of component c: fails with
\* TclError under a destroyed parent; leaves the new handle in ret
NewWidget(W, c, master, text) ==
    IF W.exc # "" THEN W
    ELSE IF ~W.widgets[master].alive THEN Raise(W, "TclError")
    ELSE IF NextHandle(W, c) = None THEN [W EXCEPT !.full = TRUE]
    ELSE [W EXCEPT !.widgets[NextHandle(W, c)] = FreshWidget(master, text),
                   !.ret = NextHandle(W, c)]

\* w.grid(row=.., column=.., sticky=.., padx=.., pady=..)
GridWidget(W, w, row, column, opts) ==
    IF W.exc # "" THEN W
    ELSE IF ~W.widgets[w].alive THEN Raise(W, "TclError")
    ELSE [W EXCEPT !.widgets[w].grid =
             [placed |-> TRUE, row |-> row, column |-> column,
              sticky |-> opts.sticky, padx |-> opts.padx, pady |-> opts.pady]]

\* w.grid_forget() inside try/except TclError
GridForget(W, w) ==
    IF W.widgets[w].alive
    THEN [W EXCEPT !.widgets[w].grid = NotPlaced]
    ELSE W

\* w.destroy() called by the runtime, inside try/except TclError
destroy(W, w) ==
    DestroyWidget(Emit(W, Event("destroy", W.widgets[w].owner, None, w, "")), w)

-----------------------------------------------------------------------------
(* Component.mount, create_widget and the Row/Column reconciler *)

RECURSIVE mount(_, _, _)

\* one entry of a child list: (child, layout)
ChildSpec(child, layout) == [child |-> child, layout |-> layout]

\* new_ids: the ids of the listed children, in order
NewIds(specs) == [i \in 1..Len(specs) |-> id(specs[i].child)]

\* specs_by_id[cid]: the last listed entry with that id
SpecById(specs, cid) ==
    specs[CHOOSE i \in 1..Len(specs) :
            /\ id(specs[i].child) = cid
            /\ \A j \in (i + 1)..Len(specs) : id(specs[j].child) # cid]

\* "Remove old children": for every mounted id absent from the new list, in
\* the table's order, drop the entry and destroy its handle
RECURSIVE RemoveOld(_, _, _, _, _)

\* the removal loop without the test "cid not in new_ids"
RECURSIVE RemoveEvery(_, _, _, _, _)
RemoveEvery(W, c, keys, i, new_ids) ==
    IF i > Len(keys) THEN W
    ELSE LET cid == keys[i]
         IN IF cid \notin DOMAIN W.mounted_children[c]
            THEN RemoveEvery(W, c, keys, i + 1, new_ids)
            ELSE LET w == W.child_widgets[c][cid]
                     w1 == [W EXCEPT
                              !.mounted_children[c] = DictPop(@, cid),
                              !.child_widgets[c] = DictPop(@, cid)]
                 IN RemoveEvery(destroy(w1, w), c, keys, i + 1, new_ids)

\* the removal loop dropping the table entries without destroying the handles
RECURSIVE RemoveOldKeepHandle(_, _, _, _, _)
RemoveOldKeepHandle(W, c, keys, i, new_ids) ==
    IF i > Len(keys) THEN W
    ELSE IF keys[i] \notin DOMAIN W.mounted_children[c]
            \/ keys[i] \in Range(new_ids)
    THEN RemoveOldKeepHandle(W, c, keys, i + 1, new_ids)
    ELSE RemoveOldKeepHandle([W EXCEPT
                                !.mounted_children[c] = DictPop(@, keys[i]),
                                !.child_widgets[c] = DictPop(@, keys[i])],
                             c, keys, i + 1, new_ids)

RemoveOld(W, c, keys, i, new_ids) ==
    IF i > Len(keys) THEN W
    ELSE IF keys[i] \notin DOMAIN W.mounted_children[c]
            \/ keys[i] \in Range(new_ids)
    THEN RemoveOld(W, c, keys, i + 1, new_ids)
    ELSE RemoveOld(destroy([W EXCEPT
                              !.mounted_children[c] = DictPop(@, keys[i]),
                              !.child_widgets[c] = DictPop(@, keys[i])],
                           W.child_widgets[c][keys[i]]),
                   c, keys, i + 1, new_ids)

\* "Clear old grid": grid_forget of every handle still in the table
RECURSIVE ClearGrid(_, _, _)
ClearGrid(W, hs, k) ==
    IF k > MaxWidgets THEN W
    ELSE IF k \in hs THEN ClearGrid(GridForget(W, k), hs, k + 1)
    ELSE ClearGrid(W, hs, k + 1)

\* a reset of the weights that leaves the minimum sizes
ResetWeightsOnly(W, frame, max_cols) ==
    IF ~W.widgets[frame].alive THEN W
    ELSE [W EXCEPT !.widgets[frame].conf =
             [i \in SlotRange |->
                 IF i < max_cols THEN [@[i] EXCEPT !.weight = 0] ELSE @[i]]]

\* "Reset column weights": columnconfigure(i, weight=0, minsize=0) for i in
\* range(max_cols), each inside try/except TclError
ResetWeights(W, frame, max_cols) ==
    IF ~W.widgets[frame].alive THEN W
    ELSE [W EXCEPT !.widgets[frame].conf =
             [i \in SlotRange |-> IF i < max_cols THEN Unconstrained ELSE @[i]]]

\* root.columnconfigure(col, minsize=width) and (col, weight=1)
Configure(W, frame, slot, opts) ==
    IF W.exc # "" THEN W
    ELSE IF opts.size = None /\ ~opts.expand THEN W
    ELSE IF ~W.widgets[frame].alive THEN Raise(W, "TclError")
    ELSE [W EXCEPT !.widgets[frame].conf[slot] =
             [weight |-> IF opts.expand THEN 1 ELSE @.weight,
              minsize |-> IF opts.size # None THEN opts.size ELSE @.minsize]]

\* the reuse test answering no for every child
NeverSameInstance(W, c, cid, child) == FALSE

\* whether the loop reuses the handle recorded under cid
SameInstance(W, c, cid, child) ==
    /\ cid \in DOMAIN W.mounted_children[c]
    /\ child = W.mounted_children[c][cid]

\* a replacement that mounts the new instance and leaves the old handle
ObtainWidgetKeepOld(W, c, cid, child) ==
    IF SameInstance(W, c, cid, child)
    THEN [W EXCEPT !.ret = W.child_widgets[c][cid]]
    ELSE mount(W, child, W.root_frame[c])

\* a loop body that takes the handle a listed instance already has, if any,
\* instead of mounting the instance
ObtainWidgetOrRoot(W, c, cid, child) ==
    IF SameInstance(W, c, cid, child)
    THEN [W EXCEPT !.ret = W.child_widgets[c][cid]]
    ELSE IF W.root[child] # None
    THEN [W EXCEPT !.ret = W.root[child]]
    ELSE mount(IF cid \in DOMAIN W.mounted_children[c]
               THEN destroy(W, W.child_widgets[c][cid])
               ELSE W,
               child, W.root_frame[c])

\* the handle for the child listed under cid: the recorded one when the same
\* instance is mounted under that id, else a fresh mount after destroying
\* the handle of the instance it replaces; leaves the handle in ret
ObtainWidget(W, c, cid, child) ==
    IF SameInstance(W, c, cid, child)
    THEN [W EXCEPT !.ret = W.child_widgets[c][cid]]
    ELSE mount(IF cid \in DOMAIN W.mounted_children[c]
               THEN destroy(W, W.child_widgets[c][cid])
               ELSE W,
               child, W.root_frame[c])

\* the loop over new_ids; new_mounted and new_widgets are its local dicts
RECURSIVE PlaceChildren(_, _, _, _, _, _)
PlaceChildren(W, c, specs, i, new_mounted, new_widgets) ==
    IF W.exc # "" \/ W.full THEN W
    ELSE IF i > Len(specs)
    THEN [W EXCEPT !.mounted_children[c] = new_mounted,
                   !.child_widgets[c] = new_widgets,
                   !.order[c] = NewIds(specs)]
    ELSE Then(id(specs[i].child), LAMBDA cid :
         Then(SpecById(specs, cid), LAMBDA spec :
         Then(ResolveOpts(W, c, spec.layout), LAMBDA opts :
         Then(ObtainWidget(W, c, cid, spec.child), LAMBDA w1 :
              IF w1.exc # "" \/ w1.full THEN w1
              ELSE PlaceChildren(
                       Configure(IF W.cls[c] = "Row"
                                 THEN GridWidget(w1, w1.ret, 0, i - 1, opts)
                                 ELSE GridWidget(w1, w1.ret, i - 1, 0, opts),
                                 W.root_frame[c], i - 1, opts),
                       c, specs, i + 1,
                       DictSet(new_mounted, cid, spec.child),
                       DictSet(new_widgets, cid, w1.ret))))))

\* Row._refresh_children / Column._refresh_children
refresh_children(W, c) ==
    IF W.exc # "" THEN W
    ELSE IF W.root_frame[c] = None THEN W
    ELSE Then(NewIds(W.children_eager[c]), LAMBDA new_ids :
         Then(RemoveOld(Emit(W, Event("refresh", c, None, None, "")),
                        c, W.order[c], 1, new_ids),
              LAMBDA w1 :
              PlaceChildren(
                  ResetWeights(ClearGrid(w1, Range(w1.child_widgets[c]), 1),
                               W.root_frame[c],
                               Max(Len(W.order[c]), Len(new_ids)) + Slack),
                  c, W.children_eager[c], 1, EmptyDict, EmptyDict)))

\* create_widget that subscribes _update without tracking the closure
CreateTkWidgetUntracked(W, c, p) ==
    LET obs == text_kwarg(c)
        w1 == NewWidget(W, c, p, IF obs = None THEN ""
                                 ELSE W.observables[obs].value)
    IN IF w1.exc # "" \/ w1.full \/ obs = None THEN w1
       ELSE ObservableSubscribe(w1, obs, UpdateCallback(w1.ret))

\* TkWidget.create_widget: the widget shows the bound Observable's value and
\* an _update callback is subscribed to it and tracked
CreateTkWidget(W, c, p) ==
    Then(text_kwarg(c), LAMBDA obs :
    Then(NewWidget(W, c, p, IF obs = None THEN ""
                            ELSE W.observables[obs].value),
         LAMBDA w1 :
         IF w1.exc # "" \/ w1.full \/ obs = None THEN w1
         ELSE Then(UpdateCallback(w1.ret), LAMBDA cb :
              [ObservableSubscribe(w1, obs, cb) EXCEPT
                 !.subscriptions[c] = Append(@, Unsubscribe(FALSE, obs, cb))])))

\* FrameComponent.create_widget: a new frame, the hook cursor reset, build.
\* build acquires the instance's hooks; Row.build and Column.build then set
\* _root_frame and run the reconciler
CreateFrame(W, c, p) ==
    Then(NewWidget(W, c, p, ""), LAMBDA w1 :
         IF w1.exc # "" \/ w1.full THEN w1
         ELSE Then(RunHooks(IF w1.has_hooks[c]
                            THEN [w1 EXCEPT !.hook_index[c] = 0]
                            ELSE w1,
                            c, 1),
                   LAMBDA w3 :
              Then(IF IsContainer(c) /\ w3.exc = ""
                   THEN refresh_children([w3 EXCEPT !.root_frame[c] = w1.ret],
                                         c)
                   ELSE w3,
                   LAMBDA w4 : [w4 EXCEPT !.ret = w1.ret])))

create_widget(W, c, p) ==
    IF IsTkWidget(c) THEN CreateTkWidget(W, c, p) ELSE CreateFrame(W, c, p)

\* mount without the test of self.root
mount_unguarded(W, c, p) ==
    IF W.exc # "" THEN W
    ELSE LET w0 == Emit(W, Event("mount", c, None, p, ""))
             w1 == create_widget([w0 EXCEPT !.parent[c] = p], c, p)
             widget == w1.ret
             w2 == register([w1 EXCEPT !.root[c] = widget], id(c), widget)
             w3 == [w2 EXCEPT !.widgets[widget].owner = c]
         IN IF w1.exc # "" \/ w1.full THEN w1
            ELSE Emit([w3 EXCEPT !.ret = widget],
                      Event("mounted", c, None, widget, ""))

\* mount testing self.root after it has stored the parent
mount_late_guard(W, c, p) ==
    IF W.exc # "" THEN W
    ELSE LET w0 == Emit([W EXCEPT !.parent[c] = p],
                        Event("mount", c, None, p, ""))
         IN IF W.root[c] # None THEN Raise(w0, "RuntimeError")
            ELSE LET w1 == create_widget(w0, c, p)
                     widget == w1.ret
                     w2 == register([w1 EXCEPT !.root[c] = widget],
                                    id(c), widget)
                     w3 == [w2 EXCEPT !.widgets[widget].owner = c]
                 IN IF w1.exc # "" \/ w1.full THEN w1
                    ELSE Emit([w3 EXCEPT !.ret = widget],
                              Event("mounted", c, None, widget, ""))

\* Component.mount
mount(W, c, p) ==
    IF W.exc # "" THEN W
    ELSE IF W.root[c] # None
    THEN Raise(Emit(W, Event("mount", c, None, p, "")), "RuntimeError")
    ELSE Then(create_widget([Emit(W, Event("mount", c, None, p, ""))
                               EXCEPT !.parent[c] = p],
                            c, p),
              LAMBDA w1 :
         IF w1.exc # "" \/ w1.full THEN w1
         ELSE Emit([register([w1 EXCEPT !.root[c] = w1.ret], id(c), w1.ret)
                      EXCEPT !.widgets[w1.ret].owner = c, !.ret = w1.ret],
                   Event("mounted", c, None, w1.ret, "")))

-----------------------------------------------------------------------------
(* Hook setters, the selector binding's listener and Store.dispatch *)

\* on_state_changed as the base class has it, for a container too
on_state_changed_base(W, c, o) ==
    IF W.exc # "" THEN W
    ELSE Emit(W, Event("on_state_changed", c, o, None, ""))

\* Component.on_state_changed: nothing in the base class, refresh() in Row
\* and Column
on_state_changed(W, c, o) ==
    IF W.exc # "" THEN W
    ELSE IF IsContainer(c)
    THEN refresh_children(Emit(W, Event("on_state_changed", c, o, None, "")),
                          c)
    ELSE Emit(W, Event("on_state_changed", c, o, None, ""))

\* a setter without the test of self._disposed
setter_unguarded(W, c, o, value) ==
    IF W.exc # "" THEN W
    ELSE LET w1 == Emit(W, Event("setter", c, o, None, value))
         IN on_state_changed(ObservableSet(w1, o, value), c, o)

\* a setter that returns early when the value is the one already stored
setter_skips_unchanged(W, c, o, value) ==
    IF W.exc # "" THEN W
    ELSE IF W.disposed[c] THEN W
    ELSE IF value = W.observables[o].value
    THEN Emit(W, Event("setter", c, o, None, value))
    ELSE on_state_changed(
             ObservableSet(Emit(W, Event("setter", c, o, None, value)),
                           o, value),
             c, o)

\* the setter closure of Component.use_state, closed over component c and
\* the slot's Observable o
setter(W, c, o, value) ==
    IF W.exc # "" THEN W
    ELSE IF W.disposed[c] THEN W
    ELSE on_state_changed(
             ObservableSet(Emit(W, Event("setter", c, o, None, value)),
                           o, value),
             c, o)

\* _on_store_change without the equality test
on_store_change_always(W, cb) ==
    IF W.disposed[cb.c] THEN W
    ELSE setter(W, cb.c, cb.o, selector(cb.arg, W.state))

\* _on_store_change without the test of self._disposed: the setter makes
\* its own
on_store_change_unguarded(W, cb) ==
    LET w1 == Emit(W, Event("selector", cb.c, cb.o, None, cb.arg))
    IN IF equality(selector(cb.arg, W.state), W.observables[cb.o].value)
       THEN w1
       ELSE setter(w1, cb.c, cb.o, selector(cb.arg, W.state))

\* Component.use_store_selector._on_store_change; the call of the selector
\* is logged
on_store_change(W, cb) ==
    IF W.disposed[cb.c] THEN W
    ELSE IF equality(selector(cb.arg, W.state), W.observables[cb.o].value)
    THEN Emit(W, Event("selector", cb.c, cb.o, None, cb.arg))
    ELSE setter(Emit(W, Event("selector", cb.c, cb.o, None, cb.arg)),
                cb.c, cb.o, selector(cb.arg, W.state))

\* one listener of the Store called
InvokeListener(W, cb) ==
    CASE cb.kind = "sel" ->
             on_store_change(Emit(W, CallEvent("listener", cb, None, "")), cb)
      [] cb.kind = "cancel" ->
             CallUnsubscribe(Emit(W, CallEvent("listener", cb, None, "")),
                             Unsubscribe(TRUE, None, Recorder(cb.arg)))
      [] cb.kind = "add" ->
             IF Held(W) >= MaxSubscribers THEN [W EXCEPT !.full = TRUE]
             ELSE StoreSubscribe(Emit(W, CallEvent("listener", cb, None, "")),
                                 Recorder(cb.arg))
      [] cb.kind = "raise" ->
             Raise(Emit(W, CallEvent("listener", cb, None, "")), "ValueError")
      [] cb.kind = "dispatch" ->
             Redispatch(Emit(W, CallEvent("listener", cb, None, "")), cb.arg)
      [] OTHER -> Emit(W, CallEvent("listener", cb, None, ""))

\* for listener in snapshot: listener(); an error ends the loop
RECURSIVE NotifyListeners(_, _, _)
NotifyListeners(W, snapshot, i) ==
    IF i > Len(snapshot) \/ W.exc # "" THEN W
    ELSE NotifyListeners(InvokeListener(W, snapshot[i]), snapshot, i + 1)

\* the list Store.dispatch iterates: list(self._listeners)
ListenerSnapshot(W) == W.listeners

\* a dispatch that notifies only when the reducer changed the state
dispatch_on_change(W, action) ==
    LET next_state == reducer(W.state, action)
        w1 == [W EXCEPT !.state = next_state]
    IN IF next_state = W.state THEN w1
       ELSE NotifyListeners(w1, ListenerSnapshot(w1), 1)

\* a dispatch that, called during a notification pass, stores the reduced
\* state and leaves the notification to the pass in progress
dispatch_flat(W, action) ==
    LET w1 == [W EXCEPT !.state = reducer(W.state, action)]
    IN IF W.log # <<>> THEN w1
       ELSE NotifyListeners(w1, ListenerSnapshot(w1), 1)

\* Store.dispatch
dispatch(W, action) ==
    Then([W EXCEPT !.state = reducer(W.state, action)], LAMBDA w1 :
         NotifyListeners(w1, ListenerSnapshot(w1), 1))

\* the body of a Redispatcher: if store.get_state()["status"] != status:
\* store.dispatch({"type": "SET_STATUS", "payload": status})
Redispatch(W, status) ==
    IF W.exc # "" \/ W.state.status = status THEN W
    ELSE dispatch(W, Action("SET_STATUS", status))

-----------------------------------------------------------------------------
(* Window *)

\* for child in frame.winfo_children(): child.destroy()
RECURSIVE DestroyChildren(_, _, _)
DestroyChildren(W, hs, k) ==
    IF k > MaxWidgets THEN W
    ELSE IF k \in hs /\ W.widgets[k].alive
    THEN DestroyChildren(destroy(W, k), hs, k + 1)
    ELSE DestroyChildren(W, hs, k + 1)

\* Window.set_content
set_content(W, content) ==
    mount(DestroyChildren(W, ChildrenOf(W, MainFrame), 1), content, MainFrame)

\* Window.portal
portal(W, component) == mount(W, component, OverlayFrame)

\* Window.clear_portal
clear_portal(W) == DestroyChildren(W, ChildrenOf(W, OverlayFrame), 1)

-----------------------------------------------------------------------------
(* The specification of the component runtime: each action is one call     *)
(* made by application code, run to completion.                            *)

\* the state after construction: the window with its two frames, the Store
\* made, the application's Observable made, every component constructed and
\* unmounted
Constructed ==
    /\ state = INITIAL_STATE
    /\ listeners = <<>>
    /\ observables = <<NewObservable("x", "")>>
    /\ widgets = [h \in Handles |->
                     IF h \in {MainFrame, OverlayFrame}
                     THEN FreshWidget(None, "") ELSE NoWidget]
    /\ dom = EmptyDict
    /\ root = [c \in Components |-> None]
    /\ parent = [c \in Components |-> None]
    /\ disposed = [c \in Components |-> FALSE]
    /\ subscriptions = [c \in Components |-> <<>>]
    /\ hook_slots = [c \in Components |-> <<>>]
    /\ hook_index = [c \in Components |-> 0]
    /\ has_hooks = [c \in Components |-> FALSE]
    /\ root_frame = [c \in Containers |-> None]
    /\ mounted_children = [c \in Containers |-> EmptyDict]
    /\ child_widgets = [c \in Containers |-> EmptyDict]
    /\ order = [c \in Containers |-> <<>>]
    /\ children_eager = [c \in Containers |-> <<>>]
    /\ cls \in [Containers -> {"Row", "Column"}]

\* the state after construction and configure_store
Init ==
    /\ Constructed
    /\ current_store = AppStore

\* the world w a call leaves becomes the state, whether the call returned
\* or raised; a call that would exceed the model's bounds is not taken
Commit(w) ==
    /\ ~w.full
    /\ state' = w.state
    /\ listeners' = w.listeners
    /\ current_store' = w.current_store
    /\ observables' = w.observables
    /\ widgets' = w.widgets
    /\ dom' = w.dom
    /\ root' = w.root
    /\ parent' = w.parent
    /\ disposed' = w.disposed
    /\ subscriptions' = w.subscriptions
    /\ hook_slots' = w.hook_slots
    /\ hook_index' = w.hook_index
    /\ has_hooks' = w.has_hooks
    /\ root_frame' = w.root_frame
    /\ mounted_children' = w.mounted_children
    /\ child_widgets' = w.child_widgets
    /\ order' = w.order
    /\ children_eager' = w.children_eager
    /\ cls' = w.cls

\* the actions the application dispatches
Actions ==
    {Action("SET_STATUS", "Ready"), Action("SET_STATUS", "Busy"),
     Action("UNKNOWN", "")}

\* the child lists the application gives a container: up to MaxChildren
\* entries with unique ids
ChildSpecs == {ChildSpec(c, layout_of(c)) : c \in Children}

ChildLists ==
    UNION {{s \in [1..n -> ChildSpecs] :
              \A i, j \in 1..n : i # j => id(s[i].child) # id(s[j].child)} :
           n \in 0..MaxChildren}

\* store.dispatch(action)
Dispatch ==
    \E a \in Actions :
        Commit(dispatch(World, a))

\* window.set_content(content)
SetContent ==
    \E c \in Containers :
        Commit(set_content(World, c))

\* window.portal(component)
Portal ==
    \E c \in {"B"} :
        Commit(portal(World, c))

\* window.clear_portal()
ClearPortal ==
    /\ ChildrenOf(World, OverlayFrame) # {}
    /\ Commit(clear_portal(World))

\* container._children_eager = children
SetChildren ==
    \E c \in Containers, specs \in ChildLists :
        /\ specs # children_eager[c]
        /\ Commit([World EXCEPT !.children_eager[c] = specs])

\* container.refresh()
Refresh ==
    \E c \in Containers :
        Commit(refresh_children(World, c))

\* a call of the setter that use_state returned to the application for one
\* of its local state slots
CallSetter ==
    \E o \in 1..Len(observables), v \in Values :
        /\ observables[o].owner # ""
        /\ ~observables[o].store_subscribed
        /\ Commit(setter(World, observables[o].owner, o, v))

\* a repeated call of dispose(): the first one is always made by the
\* <Destroy> binding
DisposeCall ==
    \E c \in Components :
        /\ disposed[c]
        /\ Commit(dispose(World, c))

Next ==
    \/ Dispatch
    \/ SetContent
    \/ Portal
    \/ ClearPortal
    \/ SetChildren
    \/ Refresh
    \/ CallSetter
    \/ DisposeCall

Spec == Init /\ [][Next]_vars

-----------------------------------------------------------------------------
(* The specification of the reconciler: the application makes the          *)
(* container the window's content, gives it child lists, refreshes it and  *)
(* dispatches, which re-renders the container through its selector binding *)

NextReconcile ==
    \/ SetContent
    \/ SetChildren
    \/ Refresh
    \/ Dispatch

SpecReconcile == Init /\ [][NextReconcile]_vars

-----------------------------------------------------------------------------
(* The specification of two components with one id: besides the calls of   *)
(* SpecReconcile without dispatch, the application shows A or A2 through   *)
(* the portal, while the other one may be a child of the container.        *)

\* window.portal(component) with one of the two components of id "a"
PortalTwin ==
    \E c \in {"A", "A2"} :
        Commit(portal(World, c))

NextTwins ==
    \/ SetContent
    \/ SetChildren
    \/ Refresh
    \/ PortalTwin
    \/ ClearPortal

SpecTwins == Init /\ [][NextTwins]_vars

-----------------------------------------------------------------------------
(* The specification of Observable and Store on their own: the application *)
(* subscribes and unsubscribes its callbacks, sets its Observable and      *)
(* dispatches; no component is mounted.                                    *)

\* the callbacks the application subscribes
AppCallbacks == {Recorder("r"), Recorder("s"), Canceller("r")}

\* observable.subscribe(cb)
Subscribe ==
    \E cb \in AppCallbacks :
        /\ Len(observables[UserObservable].subscribers) < MaxSubscribers
        /\ Commit(ObservableSubscribe(World, UserObservable, cb))

\* a call of the closure an earlier observable.subscribe(cb) returned
CancelSubscriber ==
    \E cb \in Range(observables[UserObservable].subscribers) :
        Commit(CallUnsubscribe(World, Unsubscribe(FALSE, UserObservable, cb)))

\* observable.set(v), called by the application
SetUserObservable ==
    \E v \in Values :
        Commit(ObservableSet(World, UserObservable, v))

\* store.subscribe(cb)
SubscribeListener ==
    \E cb \in AppCallbacks :
        /\ Len(listeners) < MaxSubscribers
        /\ Commit(StoreSubscribe(World, cb))

\* a call of the closure an earlier store.subscribe(cb) returned
CancelListener ==
    \E cb \in Range(listeners) :
        Commit(CallUnsubscribe(World, Unsubscribe(TRUE, None, cb)))

NextNotify ==
    \/ Subscribe
    \/ CancelSubscriber
    \/ SetUserObservable
    \/ SubscribeListener
    \/ CancelListener
    \/ Dispatch

SpecNotify == Init /\ [][NextNotify]_vars

-----------------------------------------------------------------------------
(* The specification of Observable and Store with callbacks that subscribe *)
(* during a notification pass and callbacks that raise, besides those of   *)
(* SpecNotify.  The application holds at most MaxSubscribers subscriptions *)
(* at a time, over its Observable and the Store together.                  *)

\* the callbacks the application subscribes
AllCallbacks == AppCallbacks \cup {Adder("r"), Raiser}

\* observable.subscribe(cb)
SubscribeCallback ==
    \E cb \in AllCallbacks :
        /\ Held(World) < MaxSubscribers
        /\ Commit(ObservableSubscribe(World, UserObservable, cb))

\* store.subscribe(cb)
SubscribeListenerCallback ==
    \E cb \in AllCallbacks :
        /\ Held(World) < MaxSubscribers
        /\ Commit(StoreSubscribe(World, cb))

NextCallbacks ==
    \/ SubscribeCallback
    \/ SubscribeListenerCallback
    \/ CancelSubscriber
    \/ CancelListener
    \/ SetUserObservable
    \/ Dispatch

SpecCallbacks == Init /\ [][NextCallbacks]_vars

-----------------------------------------------------------------------------
(* The specification of the demo's task list: the application dispatches   *)
(* the task actions of demo_reducer, with texts and task ids of its        *)
(* choice, while a todo list of at most MaxTaskId tasks has been added.    *)

MaxTaskId == 3

BuyMilk == <<"b", "u", "y", " ", "m", "i", "l", "k">>

Texts == {BuyMilk, <<" ">> \o BuyMilk \o <<"\n">>, <<"b">>, <<" ", "\t">>, <<>>}

TaskIds == 1..MaxTaskId

\* store.dispatch({"type": "ADD_TASK", "payload": text})
AddTask ==
    \E text \in Texts :
        /\ state.next_task_id <= MaxTaskId
        /\ Commit(dispatch(World, Action("ADD_TASK", text)))

\* store.dispatch of the actions that carry a task id
ChangeTask ==
    \E type \in {"DELETE_TASK", "TOGGLE_TASK_DONE"} :
        \E task_id \in TaskIds \cup {None} :
            Commit(dispatch(World, Action(type, task_id)))

\* store.dispatch({"type": "CLEAR_DONE_TASKS"})
ClearDoneTasks == Commit(dispatch(World, Action("CLEAR_DONE_TASKS", None)))

NextTasks ==
    \/ AddTask
    \/ ChangeTask
    \/ ClearDoneTasks
    \/ Dispatch

SpecTasks == Init /\ [][NextTasks]_vars

-----------------------------------------------------------------------------
(* The specification of the registry on its own: the application calls     *)
(* window.dom.register and window.dom.unregister with ids and handles of   *)
(* its choice.                                                             *)

\* dom.register(id, widget)
RegisterCall ==
    \E key \in Ids, h \in Handles :
        Commit(register(World, key, h))

\* dom.unregister(id, widget), and dom.unregister(id) with widget left None
UnregisterCall ==
    \E key \in Ids, h \in Handles \cup {None} :
        Commit(unregister(World, key, h))

NextRegistry ==
    \/ RegisterCall
    \/ UnregisterCall

SpecRegistry == Init /\ [][NextRegistry]_vars

-----------------------------------------------------------------------------
(* The specification of the hook accessors before and after the Store is   *)
(* installed: the application shows H through the portal, which runs H's   *)
(* build, makes the container the window's content, lists A2 as its child  *)
(* or lists no child and refreshes, calls the setters of local state,      *)
(* dispatches, clears the portal, and at some point calls configure_store. *)

\* the state after construction, before configure_store
InitHooks ==
    /\ Constructed
    /\ current_store = None

\* configure_store(store)
ConfigureStore ==
    Commit(configure_store(World, AppStore))

\* window.portal(H)
PortalHook ==
    \E c \in {"H"} :
        Commit(portal(World, c))

\* the child lists of this application: no child, or A2 alone
HookChildLists == {<<>>, <<ChildSpec("A2", layout_of("A2"))>>}

\* container._children_eager = children
SetHookChildren ==
    \E c \in Containers, specs \in HookChildLists :
        /\ specs # children_eager[c]
        /\ Commit([World EXCEPT !.children_eager[c] = specs])

NextHooks ==
    \/ ConfigureStore
    \/ PortalHook
    \/ SetContent
    \/ SetHookChildren
    \/ Refresh
    \/ ClearPortal
    \/ CallSetter
    \/ Dispatch

SpecHooks == InitHooks /\ [][NextHooks]_vars

-----------------------------------------------------------------------------
(* Properties.  A call is judged by the world it leaves and by its log,    *)
(* which starts empty in World: op(World, ...).log is what that call did.  *)

\* the fields a call left behind, without the record of the call itself
StateOf(r) == [r EXCEPT !.log = <<>>, !.exc = "", !.ret = None]

\* how many entries of s equal x
Count(s, x) == Cardinality({i \in DOMAIN s : s[i] = x})

\* the positions of the log at which callback cb was called
CallsOf(lg, ev, cb) == {i \in DOMAIN lg : lg[i].ev = ev /\ lg[i].cb = cb}

\* the calls of Store listeners, in order
ListenerCalls(lg) == SelectSeq(lg, LAMBDA e : e.ev = "listener")

\* the first position of an event of kind ev about component c, 0 if none
EventIndex(lg, ev, c) ==
    IF \E i \in DOMAIN lg : lg[i].ev = ev /\ lg[i].c = c
    THEN CHOOSE i \in DOMAIN lg :
            /\ lg[i].ev = ev /\ lg[i].c = c
            /\ \A j \in 1..(i - 1) : ~(lg[j].ev = ev /\ lg[j].c = c)
    ELSE 0

\* the call destroyed a handle or mounted a component
DestroysOrMounts(lg) ==
    \E i \in DOMAIN lg : lg[i].ev \in {"destroyed", "dispose", "mounted"}

\* the Store listeners that use_store_selector calls of component c added
ListenersOf(W, c) ==
    {i \in DOMAIN W.listeners :
        W.listeners[i].kind = "sel" /\ W.listeners[i].c = c}

\* the subscription behind an unsubscribe closure is gone from its list
Released(W, u) ==
    IF u.on_store THEN u.cb \notin Range(W.listeners)
    ELSE u.cb \notin Range(W.observables[u.o].subscribers)

\* C1: for every reachable subscriber list and stored value of an Observable
\* and every v, set(v) called by the application with v different from the
\* stored value stores v and calls each subscribed callback once per
\* subscription, with v, and nothing else; with v equal to the stored value it
\* calls no callback and leaves the Observable as it was.
C1_SetNotifiesOncePerChange ==
    \A v \in Values :
        LET before == observables[UserObservable]
            r == ObservableSet(World, UserObservable, v)
        IN IF v = before.value
           THEN r.log = <<>> /\ r.observables[UserObservable] = before
           ELSE /\ r.observables[UserObservable].value = v
                /\ r.exc = ""
                /\ Len(r.log) = Len(before.subscribers)
                /\ \A cb \in Range(before.subscribers) :
                       /\ Cardinality(CallsOf(r.log, "notify", cb))
                              = Count(before.subscribers, cb)
                       /\ \A i \in CallsOf(r.log, "notify", cb) :
                              r.log[i].v = v /\ r.log[i].o = UserObservable

\* a set that changes the value reaches two subscribers, the first of which
\* unsubscribes the second during the pass
C1_Witness ==
    /\ observables[UserObservable].value = "y"
    /\ observables[UserObservable].subscribers
           = <<Canceller("r"), Recorder("r")>>
    /\ LET r == ObservableSet(World, UserObservable, "x")
       IN /\ Len(r.log) = 2
          /\ r.observables[UserObservable].subscribers = <<Canceller("r")>>

\* C2: in every reachable state and for every action a, the state after
\* dispatch(a) is reducer(previous state, a); a dispatch that returns has
\* called every listener subscribed when it started once per subscription,
\* in the list's order, also when the new state equals the previous one.  (A
\* dispatch that a listener makes raise has called the listeners up to that
\* one, each once, and none after it.)
C2_DispatchReducesAndNotifies ==
    \A a \in Actions :
        LET r == dispatch(World, a)
            calls == ListenerCalls(r.log)
        IN ~r.full =>
              /\ r.state = reducer(state, a)
              /\ r.exc = "" =>
                    /\ Len(calls) = Len(listeners)
                    /\ \A cb \in Range(listeners) :
                           Cardinality(CallsOf(r.log, "listener", cb))
                               = Count(listeners, cb)
              /\ Len(calls) <= Len(listeners)
              /\ \A i \in DOMAIN calls : calls[i].cb = listeners[i]
              /\ r.exc # "" => Len(calls) >= 1

\* a dispatch that leaves the state as it is calls both selector listeners
C2_Witness ==
    /\ state.status = "Busy"
    /\ Len(listeners) = 2
    /\ LET r == dispatch(World, Action("UNKNOWN", ""))
       IN r.exc = "" /\ r.state = state /\ Len(ListenerCalls(r.log)) = 2

\* C3: for every container with a frame and every child list, after a
\* refresh that returns, a second refresh with the same child list returns
\* too, calls no destroy and no mount, destroys no handle and disposes no
\* component, and leaves every handle's placement and sizing constraints, and
\* the container's tables, as the first refresh left them.
C3_SecondRefreshIsIdle ==
    \A c \in Containers :
        LET r1 == refresh_children(World, c)
            r2 == refresh_children([r1 EXCEPT !.log = <<>>], c)
        IN (root_frame[c] # None /\ ~r1.full /\ r1.exc = "") =>
              /\ ~r2.full
              /\ r2.exc = ""
              /\ ~DestroysOrMounts(r2.log)
              /\ \A i \in DOMAIN r2.log : r2.log[i].ev \notin {"destroy", "mount"}
              /\ r2.widgets = r1.widgets
              /\ r2.mounted_children = r1.mounted_children
              /\ r2.child_widgets = r1.child_widgets
              /\ r2.order = r1.order

\* a container with two live children, one of them expanding, refreshed and
\* refreshed again with the same list
C3_Witness ==
    /\ root_frame["K"] # None
    /\ widgets[root_frame["K"]].alive
    /\ Len(children_eager["K"]) = 2
    /\ LET r1 == refresh_children(World, "K")
           r2 == refresh_children([r1 EXCEPT !.log = <<>>], "K")
       IN /\ r1.exc = "" /\ r2.exc = ""
          /\ r2.widgets = r1.widgets
          /\ \E i \in SlotRange : r2.widgets[root_frame["K"]].conf[i].weight = 1
          /\ \A cid \in DOMAIN r2.child_widgets["K"] :
                 r2.widgets[r2.child_widgets["K"][cid]].grid.placed

\* the child list of container c is a permutation of its mounted children:
\* the same ids with the same instances, each on a live handle
IsPermutationOfMounted(c) ==
    LET specs == children_eager[c]
    IN /\ root_frame[c] # None
       /\ Len(specs) = Cardinality(DOMAIN mounted_children[c])
       /\ \A i \in DOMAIN specs :
              /\ id(specs[i].child) \in DOMAIN mounted_children[c]
              /\ mounted_children[c][id(specs[i].child)] = specs[i].child
       /\ \A cid \in DOMAIN child_widgets[c] :
              widgets[child_widgets[c][cid]].alive

\* C4: a refresh with a permutation of the mounted children returns without
\* destroying a handle or mounting or disposing a component; every child
\* keeps its handle, alive, and is placed at its index in the new list.
C4_PermutationReusesHandles ==
    \A c \in Containers :
        IsPermutationOfMounted(c) =>
            LET r == refresh_children(World, c)
                specs == children_eager[c]
            IN /\ r.exc = "" /\ ~r.full
               /\ ~DestroysOrMounts(r.log)
               /\ \A i \in DOMAIN r.log : r.log[i].ev \notin {"destroy", "mount"}
               /\ r.child_widgets[c] = child_widgets[c]
               /\ r.mounted_children[c] = mounted_children[c]
               /\ r.root = root /\ r.disposed = disposed
               /\ \A i \in DOMAIN specs :
                      LET w == child_widgets[c][id(specs[i].child)]
                      IN /\ r.widgets[w].alive
                         /\ r.widgets[w].grid.placed
                         /\ IF cls[c] = "Row"
                            THEN r.widgets[w].grid.column = i - 1
                                 /\ r.widgets[w].grid.row = 0
                            ELSE r.widgets[w].grid.row = i - 1
                                 /\ r.widgets[w].grid.column = 0

\* two mounted children listed in the reverse of their mounted order: the
\* refresh moves the second to the first position
C4_Witness ==
    /\ IsPermutationOfMounted("K")
    /\ order["K"] = <<"a", "b">>
    /\ NewIds(children_eager["K"]) = <<"b", "a">>
    /\ LET r == refresh_children(World, "K")
           w == child_widgets["K"]["b"]
       IN /\ r.order["K"] = <<"b", "a">>
          /\ widgets[w].grid.row + widgets[w].grid.column = 1
          /\ r.widgets[w].grid.row + r.widgets[w].grid.column = 0

\* the positions of c's child list whose id is mounted with another instance
Replacements(c) ==
    {i \in DOMAIN children_eager[c] :
        /\ id(children_eager[c][i].child) \in DOMAIN mounted_children[c]
        /\ mounted_children[c][id(children_eager[c][i].child)]
               # children_eager[c][i].child}

\* C5: when a refresh reaches a listed child x whose id is mounted with
\* another instance y, then by the time mount is called on x the handle
\* recorded for y has been destroyed, y is disposed and every subscription y
\* owned is released; when the refresh returns normally it has reached x, and
\* the tables map the id to x and to x's new, live handle.
C5_ReplacementDestroysBeforeMount ==
    \A c \in Containers :
        root_frame[c] # None =>
            \A i \in Replacements(c) :
                LET r == refresh_children(World, c)
                    x == children_eager[c][i].child
                    y == mounted_children[c][id(x)]
                    h == child_widgets[c][id(x)]
                    m == EventIndex(r.log, "mount", x)
                IN ~r.full =>
                      /\ m # 0 =>
                            /\ ~r.widgets[h].alive
                            /\ r.disposed[y]
                            /\ r.subscriptions[y] = <<>>
                            /\ \A k \in DOMAIN subscriptions[y] :
                                   Released(r, subscriptions[y][k])
                            /\ widgets[h].alive =>
                                  \E d, e \in 1..(m - 1) :
                                      /\ r.log[d].ev = "destroyed"
                                      /\ r.log[d].w = h
                                      /\ r.log[e].ev = "dispose"
                                      /\ r.log[e].c = y
                      /\ r.exc = "" =>
                            /\ m # 0
                            /\ r.mounted_children[c][id(x)] = x
                            /\ r.child_widgets[c][id(x)] = r.root[x]
                            /\ r.root[x] # h
                            /\ r.widgets[r.root[x]].alive

\* A, bound to the Store, is mounted under id "a" and the list names A2: the
\* refresh replaces it and returns
C5_Witness ==
    /\ root_frame["K"] # None
    /\ "a" \in DOMAIN mounted_children["K"]
    /\ mounted_children["K"]["a"] = "A"
    /\ ~disposed["A"]
    /\ ListenersOf(World, "A") # {}
    /\ Replacements("K") # {}
    /\ LET r == refresh_children(World, "K")
       IN /\ r.exc = ""
          /\ r.mounted_children["K"]["a"] = "A2"
          /\ r.disposed["A"]
          /\ ListenersOf(r, "A") = {}

\* C6: in every reachable state, a component that was mounted and whose
\* handle has been destroyed has no use_store_selector listener of its own in
\* the Store's listener list.
C6_DestroyedHasNoListener ==
    \A c \in Components :
        (root[c] # None /\ ~widgets[root[c]].alive) =>
            ListenersOf(World, c) = {}

\* A was bound to the Store and mounted, its handle is destroyed while its
\* container lives on with a listener of its own
C6_Witness ==
    /\ root["A"] # None
    /\ ~widgets[root["A"]].alive
    /\ \E o \in DOMAIN observables :
           observables[o].owner = "A" /\ observables[o].store_subscribed
    /\ root["K"] # None
    /\ widgets[root["K"]].alive
    /\ ListenersOf(World, "K") # {}

\* dispatch(a) ran the hook setter of the binding behind listener cb: the
\* setter was entered, its Observable notified or on_state_changed called
SetterRan(lg, cb) ==
    \E i \in DOMAIN lg :
        \/ lg[i].ev = "setter" /\ lg[i].c = cb.c /\ lg[i].o = cb.o
        \/ lg[i].ev = "notify" /\ lg[i].o = cb.o
        \/ lg[i].ev = "on_state_changed" /\ lg[i].c = cb.c /\ lg[i].o = cb.o

\* C7 as stated: if the selector of a binding projects equal values from the
\* states before and after a dispatch, the dispatch does not run the
\* binding's setter.
C7_Original ==
    \A a \in Actions : \A i \in DOMAIN listeners :
        LET cb == listeners[i]
            r == dispatch(World, a)
        IN (/\ ~r.full
            /\ cb.kind = "sel"
            /\ equality(selector(cb.arg, reducer(state, a)),
                        selector(cb.arg, state)))
           => ~SetterRan(r.log, cb)

\* C7: if the selector of a binding projects from the state after a dispatch
\* a value equal to the bound Observable's value when the dispatch starts,
\* the dispatch does not run the binding's setter: the Observable is not
\* set, no subscriber of it is notified and on_state_changed is not called
\* for it.
C7_EqualToBoundValueSkipsSetter ==
    \A a \in Actions : \A i \in DOMAIN listeners :
        LET cb == listeners[i]
            r == dispatch(World, a)
        IN (/\ ~r.full
            /\ cb.kind = "sel"
            /\ equality(selector(cb.arg, reducer(state, a)),
                        observables[cb.o].value))
           => /\ ~SetterRan(r.log, cb)
              /\ r.observables[cb.o] = observables[cb.o]

\* after an earlier dispatch has set A's bound Observable to "Busy", a
\* dispatch that leaves the status calls A's listener and not its setter
C7_Witness ==
    /\ state.status = "Busy"
    /\ ~disposed["A"]
    /\ \E i \in ListenersOf(World, "A") :
           LET cb == listeners[i]
               r == dispatch(World, Action("SET_STATUS", "Busy"))
           IN /\ observables[cb.o].value = "Busy"
              /\ CallsOf(r.log, "listener", cb) # {}
              /\ ~SetterRan(r.log, cb)

\* Component lifecycle state
LifeState(c) ==
    IF disposed[c] THEN "Disposed"
    ELSE IF root[c] # None THEN "Mounted"
    ELSE "Unmounted"

LifeRank(c) ==
    CASE LifeState(c) = "Unmounted" -> 0
      [] LifeState(c) = "Mounted" -> 1
      [] OTHER -> 2

\* one step of a component's lifecycle
LifecycleStep ==
    \A c \in Components :
        /\ LifeRank(c)' >= LifeRank(c)
        /\ root[c] # None => root'[c] = root[c]
        /\ disposed'[c] => root'[c] # None
        /\ disposed[c] => StateOf(dispose(World, c)) = World

\* C8: in every step, no component moves back in Unmounted -> Mounted ->
\* Disposed; a component that has a handle keeps that handle, so mount
\* succeeds at most once per instance; a Disposed component has been Mounted
\* and stays Disposed; dispose() on a Disposed component changes nothing.
C8_LifecycleOnlyForward == [][LifecycleStep]_vars

\* the three lifecycle states side by side, K torn down after a second
\* set_content
C8_Witness ==
    /\ LifeState("K") = "Disposed"
    /\ LifeState("A") = "Disposed"
    /\ LifeState("B") = "Mounted"
    /\ LifeState("A2") = "Unmounted"

\* the handles a component can be mounted under
Parents ==
    {MainFrame, OverlayFrame} \cup ({root_frame[k] : k \in Containers} \ {None})

\* C9: in every reachable state, mount(parent) on a component that has been
\* mounted raises RuntimeError and leaves every field as it was: the
\* component's parent and handle, the registry, the subscriptions, the
\* handles.
C9_DoubleMountChangesNothing ==
    \A c \in Components : \A p \in Parents :
        root[c] # None =>
            LET r == mount(World, c, p)
            IN /\ r.exc = "RuntimeError"
               /\ r.parent = parent /\ r.root = root /\ r.dom = dom
               /\ r.subscriptions = subscriptions /\ r.widgets = widgets
               /\ StateOf(r) = World

\* K was mounted in the main frame and a second set_content tore it down
\* before its mount raised; mounting it elsewhere raises too
C9_Witness ==
    /\ root["K"] # None
    /\ disposed["K"]
    /\ parent["K"] = MainFrame
    /\ mount(World, "K", OverlayFrame).exc = "RuntimeError"
    /\ mount(World, "K", OverlayFrame).parent["K"] = MainFrame

\* the values a hook setter is called with
SetterValues == Values \cup {"Ready", "Busy"}

\* C10: in every reachable state, for every hook slot of a Disposed component
\* and every value, the slot's setter returns without a trace: the
\* Observable keeps its value, nobody is notified, on_state_changed is not
\* called and nothing else changes.
C10_SetterAfterDisposeIsNoOp ==
    \A o \in DOMAIN observables : \A v \in SetterValues :
        (observables[o].owner # "" /\ disposed[observables[o].owner]) =>
            LET r == setter(World, observables[o].owner, o, v)
            IN /\ r.observables[o].value = observables[o].value
               /\ r.log = <<>>
               /\ r = World

\* A2 set its local state to "y" while mounted and is now disposed; its
\* setter called with "x" changes nothing
C10_Witness ==
    /\ disposed["A2"]
    /\ \E o \in DOMAIN observables :
           /\ observables[o].owner = "A2"
           /\ observables[o].value = "y"
           /\ setter(World, "A2", o, "x").observables[o].value = "y"

\* the world after the cursor reset of a build pass of c and the first n hook
\* accessor calls of c's build
RECURSIVE HookCalls(_, _, _)
HookCalls(W, c, n) ==
    IF n = 0
    THEN IF W.has_hooks[c] THEN [W EXCEPT !.hook_index[c] = 0] ELSE W
    ELSE IF hooks(c)[n].kind = "selector"
    THEN use_store_selector(HookCalls(W, c, n - 1), c, hooks(c)[n].arg)
    ELSE use_state(HookCalls(W, c, n - 1), c, hooks(c)[n].arg)

\* the slots of c that an earlier build pass has reached
ReachedSlots(c) == 1..Len(hook_slots[c])

\* the k-th hook accessor call of a new pass of c's build, its use_state
\* given initial value v (a selector's projection when the k-th hook is a
\* selector binding)
KthCall(c, k, v) ==
    IF hooks(c)[k].kind = "selector"
    THEN use_store_selector(HookCalls(World, c, k - 1), c, hooks(c)[k].arg)
    ELSE use_state(HookCalls(World, c, k - 1), c, v)

\* C11: in every reachable state, for every component and every hook index k
\* of its build: in a new build pass (cursor reset, accessors called in the
\* build's order) the k-th call, when it returns, returns the Observable an
\* earlier pass stored at slot k, with the value that Observable has now,
\* whatever initial value is passed, and allocates nothing; when no earlier
\* pass reached index k while the slots before it exist, it allocates a new
\* Observable seeded with the initial value and stores it at slot k.
C11_SlotKeepsItsObservable ==
    \A c \in Components : \A k \in 1..Len(hooks(c)) : \A v \in SetterValues :
        LET r == KthCall(c, k, v)
            seed == IF hooks(c)[k].kind = "selector"
                    THEN selector(hooks(c)[k].arg, state)
                    ELSE v
        IN (~disposed[c] /\ r.exc = "") =>
              /\ r.hook_index[c] = k
              /\ k \in ReachedSlots(c) =>
                    /\ r.ret = hook_slots[c][k]
                    /\ r.observables = observables
                    /\ r.hook_slots = hook_slots
              /\ k = Len(hook_slots[c]) + 1 =>
                    /\ r.ret = Len(observables) + 1
                    /\ r.ret \notin Range(hook_slots[c])
                    /\ r.observables[r.ret].value = seed
                    /\ r.hook_slots[c] = Append(hook_slots[c], r.ret)
                    /\ \A o \in DOMAIN observables :
                           r.observables[o].value = observables[o].value

\* H's first build pass stopped at its selector binding, the Store not yet
\* installed, and H's local state was then set to "y"; in a new pass, the
\* Store installed, the first call returns that Observable, still "y", and
\* the second call is the first to reach index 2
C11_Witness ==
    /\ root["H"] = None
    /\ current_store = AppStore
    /\ Len(hook_slots["H"]) = 1
    /\ observables[hook_slots["H"][1]].value = "y"
    /\ KthCall("H", 1, "x").ret = hook_slots["H"][1]
    /\ KthCall("H", 1, "x").observables[hook_slots["H"][1]].value = "y"
    /\ KthCall("H", 2, "x").exc = ""
    /\ Len(KthCall("H", 2, "x").hook_slots["H"]) = 2

\* the subscriber lists the application may have put on a hook's Observable
\* with observable.subscribe
HookSubscribers == {<<>>, <<Recorder("r")>>, <<Recorder("r"), Recorder("s")>>}

\* the world once the application has subscribed the callbacks subs, in
\* order, to Observable o
RECURSIVE SubscribeAll(_, _, _, _)
SubscribeAll(W, o, subs, i) ==
    IF i > Len(subs) THEN W
    ELSE SubscribeAll(ObservableSubscribe(W, o, subs[i]), o, subs, i + 1)

\* the positions of the log with an event of kind ev about component c
EventsOf(lg, ev, c) == {i \in DOMAIN lg : lg[i].ev = ev /\ lg[i].c = c}

\* the reconciliation pass of container c ran to its end in r: the tables
\* hold exactly the listed children, each on a live handle placed at its
\* index on the container's axis
FullPass(r, c) ==
    LET specs == r.children_eager[c]
    IN /\ r.order[c] = NewIds(specs)
       /\ DOMAIN r.mounted_children[c] = Range(NewIds(specs))
       /\ DOMAIN r.child_widgets[c] = Range(NewIds(specs))
       /\ \A i \in DOMAIN specs :
              LET w == r.child_widgets[c][id(specs[i].child)]
              IN /\ r.mounted_children[c][id(specs[i].child)] = specs[i].child
                 /\ r.root[specs[i].child] = w
                 /\ r.widgets[w].alive
                 /\ r.widgets[w].grid.placed
                 /\ r.widgets[w].grid.row + r.widgets[w].grid.column = i - 1

\* C12: in every reachable state, for every hook slot of a component that
\* is not Disposed, every list of subscribers on the slot's Observable and
\* every value v, setter(v) first performs observable.set(v): the Observable
\* holds v and, if v differs from the value held before, each subscriber is
\* called once with v, in order, else none is; then on_state_changed is
\* invoked, exactly once in the whole call; for a Row or Column with a frame
\* that invocation starts the reconciliation pass, once, and leaves what a
\* direct refresh() after the set would leave; a setter that returns has
\* run the pass to its end.
C12_SetterSetsThenRerenders ==
    \A o \in DOMAIN observables : \A v \in SetterValues :
      \A subs \in HookSubscribers :
        LET c == observables[o].owner
            w0 == SubscribeAll(World, o, subs, 1)
            r == setter(w0, c, o, v)
            set == ObservableSet(w0, o, v)
            n == IF v = observables[o].value THEN 0 ELSE Len(subs)
        IN (c # "" /\ ~disposed[c] /\ ~r.full) =>
              /\ Len(r.log) >= n + 2
              /\ r.log[1] = Event("setter", c, o, None, v)
              /\ r.observables[o].value = v
              /\ Len(set.log) = n
              /\ \A i \in 1..n :
                     r.log[1 + i] = CallEvent("notify", subs[i], o, v)
              /\ r.log[n + 2] = Event("on_state_changed", c, o, None, "")
              /\ \A i \in DOMAIN r.log :
                     r.log[i].ev \in {"on_state_changed", "setter", "notify"}
                        => i <= n + 2
              /\ IF IsContainer(c) /\ root_frame[c] # None
                 THEN /\ Len(r.log) >= n + 3
                      /\ r.log[n + 3] = Event("refresh", c, None, None, "")
                      /\ EventsOf(r.log, "refresh", c) = {n + 3}
                      /\ r.exc = "" => FullPass(r, c)
                      /\ [r EXCEPT !.log = <<>>]
                            = [refresh_children(set, c) EXCEPT !.log = <<>>]
                 ELSE /\ Len(r.log) = n + 2
                      /\ r.exc = ""
                      /\ StateOf(r) = StateOf(set)

\* the container, mounted with a child listed that is not mounted yet, has
\* its bound Observable at "Ready"; its setter called with "Busy" notifies
\* the two subscribers, then re-renders: the pass mounts the child
C12_Witness ==
    /\ root["K"] # None
    /\ ~disposed["K"]
    /\ Len(hook_slots["K"]) = 1
    /\ observables[hook_slots["K"][1]].value = "Ready"
    /\ LET o == hook_slots["K"][1]
           w0 == SubscribeAll(World, o, <<Recorder("r"), Recorder("s")>>, 1)
           r == setter(w0, "K", o, "Busy")
       IN /\ r.exc = "" /\ ~r.full
          /\ r.log[2].ev = "notify" /\ r.log[3].ev = "notify"
          /\ r.log[4].ev = "on_state_changed"
          /\ r.log[5].ev = "refresh"
          /\ \E i \in DOMAIN r.log : r.log[i].ev = "mounted"
          /\ r.observables[o].value = "Busy"

\* C13: in every reachable state, for every hook slot at which a component's
\* build calls use_store_selector and which a pass has reached, the Store's
\* listener list holds the listener of that slot's Observable exactly once
\* and the component's owned-subscription list holds its unsubscribe exactly
\* once; a further build pass that calls use_store_selector at that slot
\* leaves both lists as they are.
C13_OneListenerPerSelectorSlot ==
    \A c \in Components : \A k \in DOMAIN hook_slots[c] :
        hooks(c)[k].kind = "selector" =>
            LET o == hook_slots[c][k]
                cb == StoreChangeCallback(c, o, hooks(c)[k].arg)
                r == HookCalls(World, c, k)
            IN /\ Count(listeners, cb) = 1
               /\ Count(subscriptions[c], Unsubscribe(TRUE, None, cb)) = 1
               /\ Cardinality(ListenersOf(World, c)) = 1
               /\ observables[o].store_subscribed
               /\ r.exc = ""
               /\ r.ret = o
               /\ r.listeners = listeners
               /\ r.subscriptions = subscriptions

\* the container's build has run at least twice, its first mount having
\* raised in the refresh after the selector was bound, and it is mounted
\* now, on a handle made by a later pass, with one listener in the Store
C13_Witness ==
    /\ root["K"] # None
    /\ root["K"] # FirstHandle("K")
    /\ widgets[FirstHandle("K")].created
    /\ ~disposed["K"]
    /\ Len(hook_slots["K"]) = 1
    /\ Cardinality(ListenersOf(World, "K")) = 1
    /\ Len(subscriptions["K"]) = 1

\* the callbacks a call invoked as subscribers of an Observable, in order
NotifyCalls(lg) ==
    LET calls == SelectSeq(lg, LAMBDA e : e.ev = "notify")
    IN [i \in DOMAIN calls |-> calls[i].cb]

\* the callbacks a call invoked as listeners of the Store, in order
ListenerCallbacks(lg) ==
    LET calls == ListenerCalls(lg)
    IN [i \in DOMAIN calls |-> calls[i].cb]

\* a value an Observable holding v does not hold
OtherValue(v) == IF v = "x" THEN "y" ELSE "x"

\* C14: in every reachable state, a set that changes the value and returns
\* has invoked exactly the callbacks of the subscriber list as it was when
\* the pass started, each entry once, in order, whatever the callbacks
\* subscribed or unsubscribed during the pass; the next pass invokes exactly
\* the list as the first pass left it, the callbacks subscribed during the
\* first pass included.  The same holds of two dispatches and the Store's
\* listener list.
C14_PassRunsOverSnapshot ==
    /\ LET o == UserObservable
           before == observables[o].subscribers
           v == OtherValue(observables[o].value)
           r1 == ObservableSet(World, o, v)
           r2 == ObservableSet([r1 EXCEPT !.log = <<>>], o, OtherValue(v))
       IN (~r1.full /\ r1.exc = "") =>
             /\ NotifyCalls(r1.log) = before
             /\ (~r2.full /\ r2.exc = "") =>
                    NotifyCalls(r2.log) = r1.observables[o].subscribers
    /\ \A a \in Actions :
           LET r1 == dispatch(World, a)
               r2 == dispatch([r1 EXCEPT !.log = <<>>], a)
           IN (~r1.full /\ r1.exc = "") =>
                 /\ ListenerCallbacks(r1.log) = listeners
                 /\ (~r2.full /\ r2.exc = "") =>
                        ListenerCallbacks(r2.log) = r1.listeners

\* the Observable's subscribers are a callback that unsubscribes Recorder
\* "r", that Recorder, and a callback that subscribes Recorder "r": the pass
\* calls the three of them, and the next pass calls the Recorder as the
\* last of three, where the first pass left it
C14_Witness ==
    /\ observables[UserObservable].subscribers
           = <<Canceller("r"), Recorder("r"), Adder("r")>>
    /\ LET v == OtherValue(observables[UserObservable].value)
           r1 == ObservableSet(World, UserObservable, v)
           r2 == ObservableSet([r1 EXCEPT !.log = <<>>], UserObservable,
                               OtherValue(v))
       IN /\ r1.exc = "" /\ ~r1.full
          /\ NotifyCalls(r1.log)
                 = <<Canceller("r"), Recorder("r"), Adder("r")>>
          /\ r1.observables[UserObservable].subscribers
                 = <<Canceller("r"), Adder("r"), Recorder("r")>>
          /\ NotifyCalls(r2.log)
                 = <<Canceller("r"), Adder("r"), Recorder("r")>>

\* the list s without its i-th entry
RemoveAt(s, i) ==
    [j \in 1..(Len(s) - 1) |-> IF j < i THEN s[j] ELSE s[j + 1]]

\* the unsubscribe closure that the subscribe call behind the i-th entry of
\* the Observable's subscriber list returned
SubscriberClosure(i) ==
    Unsubscribe(FALSE, UserObservable, observables[UserObservable].subscribers[i])

\* the unsubscribe closure that the subscribe call behind the i-th entry of
\* the Store's listener list returned
ListenerClosure(i) == Unsubscribe(TRUE, None, listeners[i])

\* C15: the entries of a subscriber list being the subscriptions held, in
\* the order they were made, a notification pass that returns invokes the
\* callbacks in that order: in the state as it is; after one more subscribe,
\* with the new callback last; and after a call of the unsubscribe closure
\* of any one subscription, with the callbacks of the other subscriptions
\* in their order.  The same for the Store's listeners and dispatch.
C15_NotifiesInSubscriptionOrder ==
    /\ LET o == UserObservable
           subs == observables[o].subscribers
           v == OtherValue(observables[o].value)
       IN /\ LET r == ObservableSet(World, o, v)
             IN (~r.full /\ r.exc = "") => NotifyCalls(r.log) = subs
          /\ \A cb \in AllCallbacks :
                 LET r == ObservableSet(ObservableSubscribe(World, o, cb), o, v)
                 IN (~r.full /\ r.exc = "") =>
                        NotifyCalls(r.log) = Append(subs, cb)
          /\ \A i \in DOMAIN subs :
                 LET r == ObservableSet(
                              CallUnsubscribe(World, SubscriberClosure(i)), o, v)
                 IN (~r.full /\ r.exc = "") =>
                        NotifyCalls(r.log) = RemoveAt(subs, i)
    /\ \A a \in Actions :
          /\ LET r == dispatch(World, a)
             IN (~r.full /\ r.exc = "") => ListenerCallbacks(r.log) = listeners
          /\ \A cb \in AllCallbacks :
                 LET r == dispatch(StoreSubscribe(World, cb), a)
                 IN (~r.full /\ r.exc = "") =>
                        ListenerCallbacks(r.log) = Append(listeners, cb)
          /\ \A i \in DOMAIN listeners :
                 LET r == dispatch(CallUnsubscribe(World, ListenerClosure(i)), a)
                 IN (~r.full /\ r.exc = "") =>
                        ListenerCallbacks(r.log) = RemoveAt(listeners, i)

\* C16: for every subscriber list and every subscription in it, a second
\* call of the subscription's unsubscribe closure leaves the list as the
\* first call left it.  The same for the Store's listener list.
C16_UnsubscribeIsIdempotent ==
    /\ \A i \in DOMAIN observables[UserObservable].subscribers :
           LET r1 == CallUnsubscribe(World, SubscriberClosure(i))
               r2 == CallUnsubscribe(r1, SubscriberClosure(i))
           IN r2.observables[UserObservable].subscribers
                  = r1.observables[UserObservable].subscribers
    /\ \A i \in DOMAIN listeners :
           LET r1 == CallUnsubscribe(World, ListenerClosure(i))
               r2 == CallUnsubscribe(r1, ListenerClosure(i))
           IN r2.listeners = r1.listeners

\* C17: in every reachable state in which no Store has been installed,
\* get_store and use_dispatch raise, and so does every use_store_selector
\* call of every component's build pass, at the point of the pass at which
\* the build makes it, leaving the hook slots, the cursor, the Observables,
\* the Store's listeners and the owned subscriptions as they were; no slot
\* of a selector binding exists and the Store has no listener.  After
\* configure_store(s), in any state, get_store returns s.
C17_NoStoreNoSelector ==
    /\ current_store = None =>
          /\ get_store(World).exc = "RuntimeError"
          /\ use_dispatch(World).exc = "RuntimeError"
          /\ listeners = <<>>
          /\ \A c \in Components : \A k \in 1..Len(hooks(c)) :
                 hooks(c)[k].kind = "selector" =>
                     LET w == HookCalls(World, c, k - 1)
                         r == use_store_selector(w, c, hooks(c)[k].arg)
                     IN /\ k \notin DOMAIN hook_slots[c]
                        /\ w.exc = "" =>
                              /\ r.exc = "RuntimeError"
                              /\ r.hook_slots = w.hook_slots
                              /\ r.hook_index = w.hook_index
                              /\ r.has_hooks = w.has_hooks
                              /\ r.observables = w.observables
                              /\ r.listeners = w.listeners
                              /\ r.subscriptions = w.subscriptions
                              /\ StateOf(r) = StateOf(w)
    /\ LET r == get_store(configure_store(World, AppStore))
       IN r.exc = "" /\ r.ret = AppStore
    /\ current_store # None =>
          get_store(World).exc = "" /\ get_store(World).ret = current_store

\* no Store is installed and a build pass of H has stopped at its selector
\* binding: the use_state before it took slot 1 and moved the cursor to 1,
\* the failed call took no slot and left the cursor there
C17_Witness ==
    /\ current_store = None
    /\ root["H"] = None
    /\ has_hooks["H"]
    /\ Len(hook_slots["H"]) = 1
    /\ hook_index["H"] = 1
    /\ subscriptions["H"] = <<>>
    /\ use_store_selector(World, "H", "status").exc = "RuntimeError"
    /\ use_store_selector(World, "H", "status").hook_index["H"] = 1

\* what get returns for every id
Lookup(W) == [key \in Ids |-> get(W, key).ret]

\* C18: in every state a sequence of register and unregister calls reaches,
\* for every id and handle h: after register(id, h), get(id) returns h and
\* every other id resolves as before; unregister(id, h) removes the entry
\* of id when it resolves to h, and only that entry, and changes nothing in
\* the registry when id has no entry or resolves to another handle; get of
\* an id without an entry returns None.
C18_RegistryLastWriteWins ==
    \A key \in Ids : \A h \in Handles :
        LET reg == register(World, key, h)
            unreg == unregister(World, key, h)
        IN /\ get(reg, key).ret = h
           /\ \A k \in Ids \ {key} : Lookup(reg)[k] = Lookup(World)[k]
           /\ IF key \in DOMAIN dom /\ dom[key] = h
              THEN /\ key \notin DOMAIN unreg.dom
                   /\ get(unreg, key).ret = None
                   /\ \A k \in Ids \ {key} :
                          Lookup(unreg)[k] = Lookup(World)[k]
              ELSE unreg.dom = dom
           /\ key \notin DOMAIN dom => get(World, key).ret = None
           /\ key \in DOMAIN dom => get(World, key).ret = dom[key]

\* id "a" resolves to the handle registered last, after another one had
\* been registered under it and an unregister naming that other one; id "b"
\* was registered and unregistered
C18_Witness ==
    /\ DOMAIN dom = {"a"}
    /\ dom["a"] = OverlayFrame
    /\ unregister(World, "a", MainFrame).dom = dom
    /\ "a" \notin DOMAIN unregister(World, "a", OverlayFrame).dom
    /\ get(register(World, "a", MainFrame), "a").ret = MainFrame
    /\ get(World, "b").ret = None

\* the state of the Store after dispatch(action), when dispatch returned
Dispatched(W, action) == dispatch(W, action).state

\* C19: whenever the Store holds no tasks, with next id n (1 in the initial
\* state): dispatching ADD_TASK "buy milk" returns with tasks
\* [{id: n, text: "buy milk", done: false}] and next id n + 1; dispatching
\* TOGGLE_TASK_DONE n after it makes that task's done true and changes
\* nothing else of it; dispatching CLEAR_DONE_TASKS after that leaves tasks
\* empty, and the next id n + 1.
C19_AddToggleClear ==
    state.tasks = <<>> =>
        LET n == state.next_task_id
            added == dispatch(World, Action("ADD_TASK", BuyMilk))
            done == dispatch(added, Action("TOGGLE_TASK_DONE", n))
            cleared == dispatch(done, Action("CLEAR_DONE_TASKS", None))
        IN /\ state = INITIAL_STATE => n = 1
           /\ added.exc = "" /\ done.exc = "" /\ cleared.exc = ""
           /\ added.state.tasks =
                  <<[id |-> n, text |-> BuyMilk, done |-> FALSE]>>
           /\ added.state.next_task_id = n + 1
           /\ done.state.tasks =
                  <<[id |-> n, text |-> BuyMilk, done |-> TRUE]>>
           /\ done.state.next_task_id = n + 1
           /\ cleared.state.tasks = <<>>
           /\ cleared.state.next_task_id = n + 1

\* the Store after ADD_TASK "buy milk" and TOGGLE_TASK_DONE 1 from the
\* initial task list: CLEAR_DONE_TASKS is enabled and empties the list
C19_Witness ==
    /\ state.tasks = <<[id |-> 1, text |-> BuyMilk, done |-> TRUE]>>
    /\ state.next_task_id = 2
    /\ state.summary = "0 open / 1 done"
    /\ state.clear_enabled
    /\ Dispatched(World, Action("CLEAR_DONE_TASKS", None)).tasks = <<>>
    /\ Dispatched(World, Action("CLEAR_DONE_TASKS", None)).summary
           = "0 open / 0 done"

\* the index of the first entry of s that raises, 0 when none does
FirstRaiser(s) ==
    IF \E i \in 1..Len(s) : s[i] = Raiser
    THEN CHOOSE i \in 1..Len(s) :
             s[i] = Raiser /\ \A j \in 1..(i - 1) : s[j] # Raiser
    ELSE 0

\* C20: in every reachable state, a set that changes the value while a
\* subscriber of the list raises ends with that subscriber's error at the
\* caller, the new value stored, and the entries of the list up to the
\* raising one called and no later one; a set on a list without a raising
\* subscriber returns without an error.  The same holds of dispatch, the
\* Store's listeners and the state the reducer returned.
C20_CallbackErrorPropagates ==
    /\ LET o == UserObservable
           subs == observables[o].subscribers
           k == FirstRaiser(subs)
           v == OtherValue(observables[o].value)
           r == ObservableSet(World, o, v)
       IN ~r.full =>
             /\ r.observables[o].value = v
             /\ IF k = 0 THEN r.exc = ""
                ELSE /\ r.exc = "ValueError"
                     /\ NotifyCalls(r.log) = SubSeq(subs, 1, k)
    /\ \A a \in Actions :
           LET k == FirstRaiser(listeners)
               r == dispatch(World, a)
           IN ~r.full =>
                 /\ r.state = reducer(state, a)
                 /\ IF k = 0 THEN r.exc = ""
                    ELSE /\ r.exc = "ValueError"
                         /\ ListenerCallbacks(r.log) = SubSeq(listeners, 1, k)

\* the Observable has a raising subscriber before another one and the Store
\* a raising listener: a set stores the new value, calls the raising
\* subscriber only and ends with the error; a dispatch stores the new
\* status, calls the listener and ends with the error
C20_Witness ==
    /\ observables[UserObservable].subscribers
           = <<Raiser, Recorder("s")>>
    /\ listeners = <<Raiser>>
    /\ state.status = "Ready"
    /\ LET v == OtherValue(observables[UserObservable].value)
           r == ObservableSet(World, UserObservable, v)
           d == dispatch(World, Action("SET_STATUS", "Busy"))
       IN /\ r.exc = "ValueError"
          /\ r.observables[UserObservable].value = v
          /\ NotifyCalls(r.log) = <<Raiser>>
          /\ d.exc = "ValueError"
          /\ d.state.status = "Busy"
          /\ ListenerCallbacks(d.log) = <<Raiser>>

\* the ids mounted in container c that its child list does not name
RemovedIds(c) == DOMAIN mounted_children[c] \ Range(NewIds(children_eager[c]))

\* C21: for every container with a frame, when refresh returns: for every id
\* that was in the mounted-children table and is not in the child list, the
\* handle recorded for it is destroyed (by this refresh if it was alive)
\* and the instance recorded for it is Disposed; the persisted order is the
\* list's ids in order; and both tables have exactly the list's ids as keys,
\* each mapped to the listed instance and to that instance's handle.
C21_RefreshRemovesAndPersists ==
    \A c \in Containers :
        LET r == refresh_children(World, c)
            specs == children_eager[c]
        IN (root_frame[c] # None /\ ~r.full /\ r.exc = "") =>
              /\ \A cid \in RemovedIds(c) :
                     LET h == child_widgets[c][cid]
                     IN /\ ~r.widgets[h].alive
                        /\ r.disposed[mounted_children[c][cid]]
                        /\ widgets[h].alive =>
                              \E d \in DOMAIN r.log :
                                  r.log[d].ev = "destroyed" /\ r.log[d].w = h
              /\ r.order[c] = NewIds(specs)
              /\ DOMAIN r.mounted_children[c] = Range(NewIds(specs))
              /\ DOMAIN r.child_widgets[c] = Range(NewIds(specs))
              /\ \A i \in DOMAIN specs :
                     /\ r.mounted_children[c][id(specs[i].child)]
                            = specs[i].child
                     /\ r.child_widgets[c][id(specs[i].child)]
                            = r.root[specs[i].child]

\* K shows A2 and B on live handles and its list now names B only: the
\* refresh returns with A2's handle destroyed, A2 disposed and B alone in
\* the tables and the order
C21_Witness ==
    /\ root_frame["K"] # None
    /\ order["K"] = <<"a", "b">>
    /\ DOMAIN mounted_children["K"] = {"a", "b"}
    /\ mounted_children["K"]["a"] = "A2"
    /\ widgets[child_widgets["K"]["a"]].alive
    /\ ~disposed["A2"]
    /\ NewIds(children_eager["K"]) = <<"b">>
    /\ LET r == refresh_children(World, "K")
       IN /\ r.exc = ""
          /\ r.disposed["A2"]
          /\ ~r.widgets[child_widgets["K"]["a"]].alive
          /\ r.order["K"] = <<"b">>
          /\ DOMAIN r.mounted_children["K"] = {"b"}

\* the positions of c's child list whose id is not in the mounted-children
\* table
NewPositions(c) ==
    {i \in DOMAIN children_eager[c] :
        id(children_eager[c][i].child) \notin DOMAIN mounted_children[c]}

\* the call mounted x: a handle that did not exist before, alive, under p
MountedFresh(r, x, p) ==
    /\ root[x] = None
    /\ r.root[x] # None
    /\ ~widgets[r.root[x]].created
    /\ r.widgets[r.root[x]].alive
    /\ r.widgets[r.root[x]].master = p
    /\ \E m \in DOMAIN r.log : r.log[m].ev = "mounted" /\ r.log[m].c = x

\* C22 as stated: a refresh of a container with a live frame mounts the
\* child listed under every id that is not in the mounted-children table and
\* records it with its new, live handle, whatever happened to that instance
\* before.
C22_Original ==
    \A c \in Containers : \A i \in NewPositions(c) :
        LET r == refresh_children(World, c)
            x == children_eager[c][i].child
        IN (/\ root_frame[c] # None
            /\ widgets[root_frame[c]].alive
            /\ ~r.full)
           => /\ id(x) \in DOMAIN r.mounted_children[c]
              /\ r.mounted_children[c][id(x)] = x
              /\ r.child_widgets[c][id(x)] = r.root[x]
              /\ r.widgets[r.root[x]].alive

\* C22: for every id of the child list that is not in the mounted-children
\* table: a refresh that returns has mounted the listed instance, which had
\* never been mounted, on a new handle under the container's frame and
\* records the instance and that handle under the id; for a listed instance
\* that has been mounted before the refresh ends with an error (the
\* RuntimeError of mount when that instance is the first of the list),
\* leaves the instance's handle as it was, does not record the id and does
\* not persist the new order.
C22_NewIdMountsUnmountedInstance ==
    \A c \in Containers : \A i \in NewPositions(c) :
        LET r == refresh_children(World, c)
            x == children_eager[c][i].child
        IN (root_frame[c] # None /\ ~r.full) =>
              /\ r.exc = "" =>
                    /\ MountedFresh(r, x, root_frame[c])
                    /\ r.mounted_children[c][id(x)] = x
                    /\ r.child_widgets[c][id(x)] = r.root[x]
              /\ root[x] # None =>
                    /\ r.exc # ""
                    /\ i = 1 => r.exc = "RuntimeError"
                    /\ r.root[x] = root[x]
                    /\ r.widgets[root[x]] = widgets[root[x]]
                    /\ id(x) \notin DOMAIN r.mounted_children[c]
                    /\ r.order[c] = order[c]

\* K, on a live frame, has mounted and removed A and shows nothing; its list
\* names A again: the refresh raises and records nothing, where a list
\* naming A2, never mounted, mounts A2 and records it
C22_Witness ==
    /\ root_frame["K"] # None
    /\ widgets[root_frame["K"]].alive
    /\ DOMAIN mounted_children["K"] = {}
    /\ root["A"] # None
    /\ parent["A"] = root_frame["K"]
    /\ disposed["A"]
    /\ root["A2"] = None
    /\ NewIds(children_eager["K"]) = <<"a">>
    /\ children_eager["K"][1].child = "A"
    /\ LET r == refresh_children(World, "K")
           other == <<ChildSpec("A2", layout_of("A2"))>>
           q == refresh_children([World EXCEPT !.children_eager["K"] = other],
                                 "K")
       IN /\ r.exc = "RuntimeError"
          /\ DOMAIN r.mounted_children["K"] = {}
          /\ q.exc = ""
          /\ MountedFresh(q, "A2", root_frame["K"])
          /\ q.mounted_children["K"]["a"] = "A2"

\* the components mounted on a live handle
Live == {c \in Components : root[c] # None /\ widgets[root[c]].alive}

\* C23: in every reachable state and for every component c on a live
\* handle h, destroying h disposes c and removes c's id from the registry
\* if the id resolved to h; if the id resolved to another handle, which the
\* destruction of h leaves alive, it resolves to that handle afterwards;
\* and an id without an entry stays without one.
C23_UnregisterOnlyOwnHandle ==
    \A c \in Live :
        LET h == root[c]
            r == destroy(World, h)
        IN /\ r.disposed[c]
           /\ ~r.widgets[h].alive
           /\ IF id(c) \notin DOMAIN dom THEN id(c) \notin DOMAIN r.dom
              ELSE IF dom[id(c)] = h THEN id(c) \notin DOMAIN r.dom
              ELSE r.widgets[dom[id(c)]].alive =>
                      /\ id(c) \in DOMAIN r.dom
                      /\ r.dom[id(c)] = dom[id(c)]

\* A is a child of K and A2, mounted later through the portal, holds the
\* registry entry of their id: destroying A's handle disposes A and leaves
\* the entry resolving to A2's handle
C23_Witness ==
    /\ {"A", "A2"} \subseteq Live
    /\ parent["A"] = root_frame["K"]
    /\ parent["A2"] = OverlayFrame
    /\ dom["a"] = root["A2"]
    /\ LET r == destroy(World, root["A"])
       IN /\ r.disposed["A"]
          /\ ~r.disposed["A2"]
          /\ r.dom["a"] = root["A2"]
          /\ r.widgets[root["A2"]].alive

\* the ids under which container c has mounted the instance its list names
UnchangedIds(c) ==
    {id(children_eager[c][i].child) : i \in
        {j \in DOMAIN children_eager[c] :
            SameInstance(World, c, id(children_eager[c][j].child),
                         children_eager[c][j].child)}}

\* C24: in every reachable state, for every action and every selector
\* binding among the Store's listeners, the listener called with the Store
\* holding the reduced state: does nothing when its component is Disposed;
\* leaves everything as it is when the selector's value of the new state
\* equals the bound Observable's value; and otherwise sets the Observable
\* to that value and invokes on_state_changed once, after the set, which
\* for a Row or Column starts one reconciliation pass.  That pass calls no
\* destroy and no mount for a child whose listed instance is the mounted
\* one and, when it returns, leaves such a child on the handle it had.
C24_SelectorBindingRerenders ==
    \A a \in Actions : \A k \in DOMAIN listeners :
        LET cb == listeners[k]
            c == cb.c
            w1 == [World EXCEPT !.state = reducer(state, a)]
            r == InvokeListener(w1, cb)
            new == selector(cb.arg, w1.state)
            changes == EventsOf(r.log, "on_state_changed", c)
            sets == EventsOf(r.log, "setter", c)
        IN (cb.kind = "sel" /\ ~r.full) =>
              IF disposed[c] \/ equality(new, observables[cb.o].value)
              THEN /\ Len(r.log) = IF disposed[c] THEN 1 ELSE 2
                   /\ EventsOf(r.log, "selector", c)
                          = IF disposed[c] THEN {} ELSE {2}
                   /\ StateOf(r) = w1
              ELSE /\ r.observables[cb.o].value = new
                   /\ Cardinality(sets) = 1
                   /\ Cardinality(changes) = 1
                   /\ \A i \in sets : \A j \in changes :
                          i < j /\ r.log[i].o = cb.o /\ r.log[j].o = cb.o
                                /\ r.log[i].v = new
                   /\ IF IsContainer(c)
                      THEN /\ Cardinality(EventsOf(r.log, "refresh", c)) = 1
                           /\ \A j \in changes :
                                  EventsOf(r.log, "refresh", c) = {j + 1}
                           /\ \A cid \in UnchangedIds(c) :
                                  LET h == child_widgets[c][cid]
                                      x == mounted_children[c][cid]
                                  IN /\ \A i \in DOMAIN r.log :
                                            ~(/\ r.log[i].ev \in
                                                   {"destroy", "destroyed"}
                                              /\ r.log[i].w = h)
                                     /\ EventsOf(r.log, "mount", x) = {}
                                     /\ r.widgets[h].alive = widgets[h].alive
                                     /\ r.exc = "" =>
                                           /\ r.child_widgets[c][cid] = h
                                           /\ r.mounted_children[c][cid] = x
                           /\ r.exc = "" => FullPass(r, c)
                      ELSE /\ r.exc = ""
                           /\ \A j \in changes : j = Len(r.log)

\* K shows A and its bound Observable holds "Ready"; the list names A and
\* B; K's listener, called after the status became "Busy", sets the
\* Observable and runs one pass, which mounts B and keeps A on its handle
C24_Witness ==
    /\ state.status = "Ready"
    /\ ~disposed["K"]
    /\ root_frame["K"] # None
    /\ DOMAIN mounted_children["K"] = {"a"}
    /\ mounted_children["K"]["a"] = "A"
    /\ widgets[child_widgets["K"]["a"]].alive
    /\ NewIds(children_eager["K"]) = <<"a", "b">>
    /\ children_eager["K"][1].child = "A"
    /\ \E k \in ListenersOf(World, "K") :
           LET cb == listeners[k]
               w1 == [World EXCEPT !.state =
                         reducer(state, Action("SET_STATUS", "Busy"))]
               r == InvokeListener(w1, cb)
           IN /\ observables[cb.o].value = "Ready"
              /\ r.exc = ""
              /\ r.observables[cb.o].value = "Busy"
              /\ Cardinality(EventsOf(r.log, "refresh", "K")) = 1
              /\ r.child_widgets["K"]["a"] = child_widgets["K"]["a"]
              /\ EventsOf(r.log, "mounted", "B") # {}

\* the position of a placed handle on the axis of container c
AxisPosition(W, c, w) ==
    IF W.cls[c] = "Row" THEN W.widgets[w].grid.column
    ELSE W.widgets[w].grid.row

\* the handles placed in the frame of container c
PlacedIn(W, c) ==
    {w \in Handles : /\ W.widgets[w].created
                     /\ W.widgets[w].master = W.root_frame[c]
                     /\ W.widgets[w].grid.placed}

\* no two entries of the child list have the same id
UniqueIds(specs) ==
    \A i, j \in DOMAIN specs : i # j => id(specs[i].child) # id(specs[j].child)

\* C25: after a refresh that returns, of a container whose list
\* has unique ids, the handle of the i-th listed child is placed at axis
\* position i - 1 (counting from 0), the handles placed in the container's
\* frame are exactly those of the listed children, one per position
\* 0..n-1, and the handle of no removed child is placed.
C25_ListedChildrenFillAxis ==
    \A c \in Containers :
        LET r == refresh_children(World, c)
            specs == children_eager[c]
        IN (root_frame[c] # None /\ UniqueIds(specs) /\ ~r.full /\ r.exc = "")
           => /\ \A i \in DOMAIN specs :
                     LET w == r.child_widgets[c][id(specs[i].child)]
                     IN /\ r.widgets[w].grid.placed
                        /\ AxisPosition(r, c, w) = i - 1
                        /\ r.widgets[w].grid.row + r.widgets[w].grid.column
                               = i - 1
              /\ PlacedIn(r, c) = Range(r.child_widgets[c])
              /\ \A p \in 0..(Len(specs) - 1) :
                     Cardinality({w \in PlacedIn(r, c) :
                                     AxisPosition(r, c, w) = p}) = 1
              /\ \A cid \in RemovedIds(c) :
                     ~r.widgets[child_widgets[c][cid]].grid.placed

\* the sizing constraints the child list asks for at a slot of the axis:
\* weight 1 for a child listed there with expand, its size as the minimum
\* for a child listed there with a fixed size, 0 otherwise
Requested(specs, slot) ==
    IF slot + 1 \in DOMAIN specs
    THEN [weight |-> IF specs[slot + 1].layout.expand THEN 1 ELSE 0,
          minsize |-> IF specs[slot + 1].layout.size # None
                      THEN specs[slot + 1].layout.size ELSE 0]
    ELSE Unconstrained

\* C26: in every reachable state, after a refresh that returns, every slot
\* of the container's axis has weight 1 exactly when the child listed at
\* that position asks to expand, and as its minimum size the fixed size of
\* the child listed there, if it asks for one; every other slot, whatever
\* earlier passes configured there, has weight 0 and minimum size 0.
C26_SizingFollowsCurrentList ==
    \A c \in Containers :
        LET r == refresh_children(World, c)
            specs == children_eager[c]
        IN (root_frame[c] # None /\ ~r.full /\ r.exc = "") =>
              \A slot \in SlotRange :
                  r.widgets[root_frame[c]].conf[slot] = Requested(specs, slot)

\* K shows A2, which has a fixed size, at slot 0 and B at slot 1; its list
\* now names B alone: the refresh returns with no constraint on any slot
C26_Witness ==
    /\ root_frame["K"] # None
    /\ widgets[root_frame["K"]].alive
    /\ order["K"] = <<"a", "b">>
    /\ widgets[root_frame["K"]].conf[0].minsize = FixedSize
    /\ NewIds(children_eager["K"]) = <<"b">>
    /\ LET r == refresh_children(World, "K")
       IN /\ r.exc = ""
          /\ r.widgets[root["B"]].grid.placed
          /\ \A slot \in SlotRange :
                 r.widgets[root_frame["K"]].conf[slot] = Unconstrained

\* handle w lies beneath handle h in the toolkit's widget tree
RECURSIVE IsBeneath(_, _, _)
IsBeneath(W, w, h) ==
    /\ W.widgets[w].master # None
    /\ \/ W.widgets[w].master = h
       \/ IsBeneath(W, W.widgets[w].master, h)

\* the components mounted on a live handle beneath handle h
MountedBeneath(h) == {c \in Live : IsBeneath(World, root[c], h)}

\* component c, mounted when the call started, has been torn down by it
TornDown(r, c) ==
    /\ r.disposed[c]
    /\ ~r.widgets[root[c]].alive
    /\ r.subscriptions[c] = <<>>
    /\ \A k \in DOMAIN subscriptions[c] : Released(r, subscriptions[c][k])
    /\ ListenersOf(r, c) = {}
    /\ (id(c) \in DOMAIN dom /\ dom[id(c)] = root[c])
           => id(c) \notin DOMAIN r.dom

\* C27: in every reachable state and for every live handle h, the window's
\* two frames included, destroying h tears down every component mounted
\* beneath h: the component is Disposed, its handle destroyed, every
\* subscription it owned released, and its id is no longer registered if it
\* resolved to the component's handle; an id that resolved to a handle
\* outside h's subtree still resolves to it.  set_content, which destroys
\* what the main frame shows, tears down every component mounted beneath the
\* main frame, and clear_portal every component beneath the overlay.
C27_TeardownDisposesDescendants ==
    /\ \A h \in Handles :
           widgets[h].alive =>
               LET r == destroy(World, h)
               IN /\ \A c \in MountedBeneath(h) : TornDown(r, c)
                  /\ \A key \in DOMAIN dom :
                         (dom[key] # h /\ ~IsBeneath(World, dom[key], h))
                            => /\ key \in DOMAIN r.dom
                               /\ r.dom[key] = dom[key]
    /\ \A k \in Containers :
           LET r == set_content(World, k)
           IN \A c \in MountedBeneath(MainFrame) : TornDown(r, c)
    /\ LET r == clear_portal(World)
       IN \A c \in MountedBeneath(OverlayFrame) : TornDown(r, c)

\* K shows A, bound to the Store, and B, bound to the application's
\* Observable, while A2 in the portal holds the registry entry of id "a":
\* destroying K's handle disposes K, A and B, releases A's listener and
\* B's subscriber, removes "root" and "b" from the registry and leaves "a"
C27_Witness ==
    /\ {"K", "A", "A2", "B"} \subseteq Live
    /\ MountedBeneath(root["K"]) = {"A", "B"}
    /\ ListenersOf(World, "A") # {}
    /\ Len(subscriptions["B"]) = 1
    /\ dom["a"] = root["A2"]
    /\ dom["b"] = root["B"]
    /\ LET r == destroy(World, root["K"])
       IN /\ r.disposed["K"] /\ r.disposed["A"] /\ r.disposed["B"]
          /\ ~r.disposed["A2"]
          /\ r.listeners = <<>>
          /\ r.observables[UserObservable].subscribers = <<>>
          /\ DOMAIN r.dom = {"a"}
          /\ r.dom["a"] = root["A2"]

\* A window whose content and portal show leaf widgets bound to the
\* application's Observable, which the application sets
NextLeaf ==
    \/ SetContent
    \/ SetChildren
    \/ Refresh
    \/ Portal
    \/ ClearPortal
    \/ SetUserObservable

SpecLeaf == Init /\ [][NextLeaf]_vars

\* the leaf widget components with a property bound to an Observable
BoundLeaves == {c \in Components : IsTkWidget(c) /\ text_kwarg(c) # None}

\* the calls of the _update callback of widget w made during a call
UpdateCalls(lg, w) ==
    {i \in DOMAIN lg : lg[i].ev = "notify" /\ lg[i].cb = UpdateCallback(w)}

\* C28: in every reachable state, for every leaf widget component c with a
\* property bound to an Observable that has been mounted: while c is not
\* Disposed, its _update callback is subscribed once and the closure that
\* removes it is in c's owned subscriptions; when c is Disposed, the
\* callback is not in the Observable's subscriber list, c owns nothing, and
\* set(v), for every v, calls no _update of c's widget and leaves the
\* destroyed widget as it was.
C28_LeafSubscriptionIsOwned ==
    \A c \in BoundLeaves :
        root[c] # None =>
            LET o == text_kwarg(c)
                cb == UpdateCallback(root[c])
            IN /\ ~disposed[c] =>
                     /\ Cardinality({i \in DOMAIN observables[o].subscribers :
                                        observables[o].subscribers[i] = cb}) = 1
                     /\ subscriptions[c] = <<Unsubscribe(FALSE, o, cb)>>
               /\ disposed[c] =>
                     /\ cb \notin Range(observables[o].subscribers)
                     /\ subscriptions[c] = <<>>
                     /\ \A v \in Values :
                            LET r == ObservableSet(World, o, v)
                            IN /\ r.exc = ""
                               /\ UpdateCalls(r.log, root[c]) = {}
                               /\ r.widgets[root[c]] = widgets[root[c]]

\* B was mounted and its handle destroyed, and the application has set the
\* Observable to "y": a set to "x" now stores "x" and calls nothing
C28_Witness ==
    /\ root["B"] # None
    /\ disposed["B"]
    /\ ~widgets[root["B"]].alive
    /\ observables[UserObservable].value = "y"
    /\ LET r == ObservableSet(World, UserObservable, "x")
       IN /\ r.observables[UserObservable].value = "x"
          /\ r.log = <<>>
          /\ r.widgets = widgets

-----------------------------------------------------------------------------
(* The reducer over Python objects.  A heap holds the state dicts, the task *)
(* lists and the task dicts; a state dict refers to its task list, a task   *)
(* list to its task dicts, by address.  ret is the object a call returned.  *)

\* the heap that holds state s and nothing else: the dict at address 1, its
\* task list at address 1, the task dicts at 1..len(tasks)
HeapOf(s) ==
    [dicts |-> <<[s EXCEPT !.tasks = 1]>>,
     lists |-> <<[i \in 1..Len(s.tasks) |-> i]>>,
     recs |-> s.tasks,
     ret |-> 1]

\* the task dicts a list refers to, and the contents of a state dict
TaskRecords(H, l) == [i \in 1..Len(H.lists[l]) |-> H.recs[H.lists[l][i]]]

Contents(H, a) == [H.dicts[a] EXCEPT !.tasks = TaskRecords(H, H.dicts[a].tasks)]

\* state = state: the name bound to the object itself
alias_state(H, a) == [H EXCEPT !.ret = a]

\* dict(state): a new dict with the same items
copy_state(H, a) ==
    [H EXCEPT !.dicts = Append(@, H.dicts[a]), !.ret = Len(H.dicts) + 1]

\* dict(task)
copy_task(H, t) ==
    [H EXCEPT !.recs = Append(@, H.recs[t]), !.ret = Len(H.recs) + 1]

\* a dict display {"id": ..., "text": ..., "done": ...}
new_task(H, rec) == [H EXCEPT !.recs = Append(@, rec), !.ret = Len(H.recs) + 1]

\* list(x), x + [y], a list comprehension, []: a new list of the items
new_list(H, items) ==
    [H EXCEPT !.lists = Append(@, items), !.ret = Len(H.lists) + 1]

\* demo_reducer._assign_tasks: three item assignments on the dict st
assign_tasks_in(H, st, l) ==
    [H EXCEPT !.dicts[st].tasks = l,
              !.dicts[st].summary = derive_summary(TaskRecords(H, l)),
              !.dicts[st].clear_enabled = done_count(TaskRecords(H, l)) > 0,
              !.ret = st]

\* the loop of the TOGGLE_TASK_DONE branch: a copy of the task with the id
\* is changed and appended to new_tasks, any other task appended itself
RECURSIVE toggle_loop(_, _, _, _, _)
toggle_loop(H, tasks, i, new_tasks, task_id) ==
    IF i > Len(H.lists[tasks]) THEN H
    ELSE LET task == H.lists[tasks][i]
         IN IF H.recs[task].id = task_id
            THEN LET h1 == copy_task(H, task)
                     updated == h1.ret
                 IN toggle_loop(
                        [h1 EXCEPT !.recs[updated].done = ~h1.recs[task].done,
                                   !.lists[new_tasks] = Append(@, updated)],
                        tasks, i + 1, new_tasks, task_id)
            ELSE toggle_loop([H EXCEPT !.lists[new_tasks] = Append(@, task)],
                             tasks, i + 1, new_tasks, task_id)

\* the branches of the reducer, on the copy st
reduce_copy(H, st, action) ==
    CASE action.type = "SET_STATUS" ->
             [H EXCEPT !.dicts[st].status = action.payload]
      [] action.type = "SET_SUMMARY" ->
             [H EXCEPT !.dicts[st].summary = action.payload]
      [] action.type = "SET_CLEAR_ENABLED" ->
             [H EXCEPT !.dicts[st].clear_enabled = bool(action.payload)]
      [] action.type = "ADD_TASK" ->
             IF strip(action.payload) = <<>> THEN H
             ELSE LET next_id == H.dicts[st].next_task_id
                      h1 == new_task(H, [id |-> next_id,
                                         text |-> strip(action.payload),
                                         done |-> FALSE])
                      h2 == new_list(h1, h1.lists[h1.dicts[st].tasks])
                      h3 == new_list(h2, Append(h2.lists[h2.ret], h1.ret))
                  IN assign_tasks_in(
                         [h3 EXCEPT !.dicts[st].next_task_id = next_id + 1],
                         st, h3.ret)
      [] action.type = "DELETE_TASK" ->
             IF action.payload = None THEN H
             ELSE LET h1 == new_list(H, H.lists[H.dicts[st].tasks])
                      h2 == new_list(h1, SelectSeq(h1.lists[h1.ret],
                                LAMBDA t : h1.recs[t].id # action.payload))
                  IN IF Len(h2.lists[h2.ret]) = Len(h2.lists[h1.ret]) THEN h2
                     ELSE assign_tasks_in(h2, st, h2.ret)
      [] action.type = "TOGGLE_TASK_DONE" ->
             IF action.payload = None THEN H
             ELSE LET h1 == new_list(H, H.lists[H.dicts[st].tasks])
                      h2 == new_list(h1, <<>>)
                      h3 == toggle_loop(h2, h1.ret, 1, h2.ret, action.payload)
                  IN IF Len(h3.recs) = Len(h2.recs) THEN h3
                     ELSE assign_tasks_in(h3, st, h2.ret)
      [] action.type = "CLEAR_DONE_TASKS" ->
             LET h1 == new_list(H, H.lists[H.dicts[st].tasks])
                 h2 == new_list(h1, SelectSeq(h1.lists[h1.ret],
                           LAMBDA t : ~h1.recs[t].done))
             IN IF Len(h2.lists[h2.ret]) = Len(h2.lists[h1.ret]) THEN h2
                ELSE assign_tasks_in(h2, st, h2.ret)
      [] OTHER -> H

\* demo_reducer.reducer called with the state dict at address a: the
\* shallow copy, the branch of the action's type, return state
reducer_on(H, a, action) ==
    LET st == copy_state(H, a).ret
    IN [reduce_copy(copy_state(H, a), st, action) EXCEPT !.ret = st]

\* Store.dispatch on the heap: self._state = self._reducer(self._state,
\* action) binds the Store's reference, ret here, to the returned dict; the
\* listeners read the state and write none of its objects
dispatch_on(H, a, action) == reducer_on(H, a, action)

\* the state dict at address a, its task list and every task dict in the
\* list are in R as they are in H
Untouched(H, R, a) ==
    /\ R.dicts[a] = H.dicts[a]
    /\ R.lists[H.dicts[a].tasks] = H.lists[H.dicts[a].tasks]
    /\ \A i \in 1..Len(H.lists[H.dicts[a].tasks]) :
           R.recs[H.lists[H.dicts[a].tasks][i]]
               = H.recs[H.lists[H.dicts[a].tasks][i]]

\* the reducer called with the Store's state and action leaves the objects
\* of that state as they were, returns a dict with the contents the reducer
\* computes, and a reference to the state taken before dispatch reads the
\* same contents after it
LeavesStateAlone(action) ==
    LET H == HeapOf(state)
        R == reducer_on(H, 1, action)
        D == dispatch_on(H, 1, action)
    IN /\ Untouched(H, R, 1)
       /\ Contents(R, R.ret) = reducer(state, action)
       /\ Contents(D, 1) = state
       /\ Contents(D, D.ret) = reducer(state, action)

\* actions of the types that set one field, and one of an unknown type
FieldActions ==
    {Action("SET_STATUS", "Busy"), Action("SET_STATUS", "Ready"),
     Action("SET_SUMMARY", "s"), Action("SET_CLEAR_ENABLED", "yes"),
     Action("SET_CLEAR_ENABLED", ""), Action("UNKNOWN", "")}

\* C29: for every state the Store reaches and every action (each type, with
\* texts that are empty, blank or not, and task ids that are present,
\* absent or None), the reducer leaves the state dict it was given, that
\* dict's tasks list and every task dict in the list with the contents they
\* had, so that a reference to the state taken before dispatch reads the
\* same contents after dispatch; the dict the reducer returns has the
\* contents of the reduced state.
C29_ReducerLeavesStateAlone ==
    /\ \A action \in FieldActions : LeavesStateAlone(action)
    /\ \A text \in Texts : LeavesStateAlone(Action("ADD_TASK", text))
    /\ \A type \in {"DELETE_TASK", "TOGGLE_TASK_DONE"} :
           \A task_id \in TaskIds \cup {None} :
               LeavesStateAlone(Action(type, task_id))
    /\ LeavesStateAlone(Action("CLEAR_DONE_TASKS", None))

\* the Store holds an open and a done task: TOGGLE_TASK_DONE of the open one
\* returns a new dict whose list holds a new dict for that task and the done
\* task's own dict, and the state given still has its task open
C29_Witness ==
    /\ Len(state.tasks) = 2
    /\ ~state.tasks[1].done
    /\ state.tasks[2].done
    /\ LET H == HeapOf(state)
           R == reducer_on(H, 1, Action("TOGGLE_TASK_DONE", state.tasks[1].id))
       IN /\ R.ret = 2
          /\ R.lists[R.dicts[R.ret].tasks] = <<3, 2>>
          /\ R.recs[3].done
          /\ ~R.recs[1].done
          /\ Contents(R, 1) = state
          /\ Contents(R, 2).summary = "0 open / 2 done"

\* C30: in every reachable state and for every component, Unmounted,
\* Mounted or Disposed, that has hook slots, the hook cursor is at most the
\* number of slots, and use_state(v), for every v, returns without an error
\* the Observable stored at the index the cursor had, which was allocated by
\* this call if the cursor was at the end of the slots.
C30_CursorWithinSlots ==
    \A c \in Components :
        /\ has_hooks[c] => hook_index[c] <= Len(hook_slots[c])
        /\ \A v \in Values :
               LET r == use_state(World, c, v)
                   idx == IF has_hooks[c] THEN hook_index[c] ELSE 0
               IN /\ r.exc = ""
                  /\ r.ret = r.hook_slots[c][idx + 1]
                  /\ r.hook_index[c] = idx + 1

-----------------------------------------------------------------------------
(* The specification of re-entrant set: the application subscribes to its   *)
(* Observable a callback that sets the Observable back to "x", and          *)
(* callbacks that only return, shows the Label bound to the Observable in   *)
(* the portal, and sets the Observable.                                     *)

\* the callbacks the application subscribes
ReentrantCallbacks == {Resetter("x"), Recorder("r")}

\* observable.subscribe(cb)
SubscribeReentrant ==
    \E cb \in ReentrantCallbacks :
        /\ Len(observables[UserObservable].subscribers) < MaxSubscribers
        /\ Commit(ObservableSubscribe(World, UserObservable, cb))

NextReentrant ==
    \/ SubscribeReentrant
    \/ CancelSubscriber
    \/ Portal
    \/ ClearPortal
    \/ SetUserObservable

SpecReentrant == Init /\ [][NextReentrant]_vars

\* the value of the last call of subscriber cb in the log of a call
LastDelivered(lg, cb) ==
    lg[CHOOSE i \in DOMAIN lg :
           /\ lg[i].ev = "notify" /\ lg[i].cb = cb
           /\ \A j \in DOMAIN lg :
                  (lg[j].ev = "notify" /\ lg[j].cb = cb) => j <= i].v

\* C31: in every reachable state and for every v, when set(v) called by the
\* application returns, each subscriber that was called during it was last
\* called with the value the Observable holds now, and a live widget whose
\* _update was called shows that value, also when a subscriber called set
\* on the Observable during the pass.
C31_LastDeliveredIsCurrent ==
    \A v \in Values :
        LET r == ObservableSet(World, UserObservable, v)
        IN r.exc = "" =>
               \A i \in DOMAIN r.log :
                   r.log[i].ev = "notify" =>
                       /\ LastDelivered(r.log, r.log[i].cb)
                              = r.observables[UserObservable].value
                       /\ (r.log[i].cb.kind = "update"
                               /\ r.widgets[r.log[i].cb.w].alive)
                              => r.widgets[r.log[i].cb.w].text
                                     = r.observables[UserObservable].value

-----------------------------------------------------------------------------
(* The specification of re-entrant dispatch: the container is the window's  *)
(* content and lists A, bound to the Store, B, both or nothing; the         *)
(* application subscribes to the Store, and to the Observables of the       *)
(* bindings, a callback that dispatches SET_STATUS "Busy" when the status   *)
(* is another, and dispatches.                                              *)

\* the child lists of this application
BoundChildLists ==
    {<<>>,
     <<ChildSpec("A", layout_of("A"))>>,
     <<ChildSpec("B", layout_of("B"))>>,
     <<ChildSpec("A", layout_of("A")), ChildSpec("B", layout_of("B"))>>}

\* container._children_eager = children
SetBoundChildren ==
    \E c \in Containers, specs \in BoundChildLists :
        /\ specs # children_eager[c]
        /\ Commit([World EXCEPT !.children_eager[c] = specs])

\* store.subscribe(cb)
SubscribeRedispatcher ==
    /\ Redispatcher("Busy") \notin Range(listeners)
    /\ Commit(StoreSubscribe(World, Redispatcher("Busy")))

\* a call of the closure that store.subscribe(cb) returned
CancelRedispatcher ==
    /\ Redispatcher("Busy") \in Range(listeners)
    /\ Commit(CallUnsubscribe(World,
                  Unsubscribe(TRUE, None, Redispatcher("Busy"))))

\* observable.subscribe(cb) on the Observable a use_store_selector call
\* returned
SubscribeToBinding ==
    \E o \in DOMAIN observables :
        /\ observables[o].store_subscribed
        /\ Redispatcher("Busy") \notin Range(observables[o].subscribers)
        /\ Commit(ObservableSubscribe(World, o, Redispatcher("Busy")))

NextRedispatch ==
    \/ SetContent
    \/ SetBoundChildren
    \/ Refresh
    \/ SubscribeRedispatcher
    \/ CancelRedispatcher
    \/ SubscribeToBinding
    \/ Dispatch

SpecRedispatch == Init /\ [][NextRedispatch]_vars

\* the use_store_selector listeners of components that are not Disposed
LiveBindings(W) ==
    {i \in DOMAIN W.listeners :
        W.listeners[i].kind = "sel" /\ ~W.disposed[W.listeners[i].c]}

\* the Observable of every binding of a component that is not Disposed
\* holds selector(get_state()), and every such binding has its listener
Consistent(W) ==
    /\ \A i \in LiveBindings(W) :
           W.observables[W.listeners[i].o].value
               = selector(W.listeners[i].arg, W.state)
    /\ \A o \in DOMAIN W.observables :
           (W.observables[o].store_subscribed
               /\ ~W.disposed[W.observables[o].owner])
              => \E i \in LiveBindings(W) : W.listeners[i].o = o

\* the calls of Redispatchers in the log of a call that went on to dispatch
Redispatches(lg) ==
    {i \in DOMAIN lg :
        /\ lg[i].ev \in {"listener", "notify"}
        /\ lg[i].cb.kind = "dispatch"
        /\ i < Len(lg)
        /\ lg[i + 1].ev = "listener"}

\* C32: in every reachable state, also one that an earlier dispatch that
\* raised left with a binding out of date, and for every action a: when
\* dispatch(a) called by the application returns without an error, every
\* use_store_selector binding of a component that is not Disposed holds
\* selector(get_state()), also when listeners of the Store or subscribers
\* of the bindings' Observables dispatched during the pass.
C32_BindingsConsistentAfterDispatch ==
    \A a \in Actions :
        LET r == dispatch(World, a)
        IN r.exc = "" => Consistent(r)

\* K and A are bound to the status, A is out of date, and the application's
\* listener, subscribed after K's and before A's, dispatches during the
\* pass of SET_STATUS "Ready": the dispatch returns with both on "Busy"
C32_Witness ==
    /\ ~disposed["K"] /\ ~disposed["A"]
    /\ ListenersOf(World, "K") # {} /\ ListenersOf(World, "A") # {}
    /\ ~Consistent(World)
    /\ \E i \in DOMAIN listeners :
           /\ listeners[i] = Redispatcher("Busy")
           /\ \E k \in ListenersOf(World, "K") : k < i
           /\ \E j \in ListenersOf(World, "A") : i < j
    /\ LET r == dispatch(World, Action("SET_STATUS", "Ready"))
       IN /\ r.exc = ""
          /\ Redispatches(r.log) # {}
          /\ r.state.status = "Busy"
          /\ ~r.disposed["K"] /\ ~r.disposed["A"]
          /\ \A i \in LiveBindings(r) :
                 r.observables[r.listeners[i].o].value = "Busy"

\* every handle recorded in the table of container c has not been destroyed
RecordedHandlesLive(W, c) ==
    \A key \in DOMAIN W.child_widgets[c] :
        W.widgets[W.child_widgets[c][key]].alive

\* C33: in every reachable state and for every container whose own handle
\* has not been destroyed and whose table records live handles only, after
\* refresh() returns or raises every handle recorded in the container's
\* table has not been destroyed.
C33_TableHoldsLiveHandles ==
    \A c \in Containers :
        (root_frame[c] # None /\ widgets[root_frame[c]].alive
            /\ RecordedHandlesLive(World, c))
           => RecordedHandlesLive(refresh_children(World, c), c)

\* the components that a call disposed: not Disposed when it started,
\* Disposed in its log at index i
DisposedAt(lg, c, i) ==
    /\ ~disposed[c]
    /\ i \in DOMAIN lg
    /\ lg[i].ev = "dispose"
    /\ lg[i].c = c

\* the world in which Store.dispatch(a) calls the listener at index n + 1 of
\* its snapshot: the state reduced and the first n listeners called
BeforeListener(a, n) ==
    NotifyListeners([World EXCEPT !.state = reducer(state, a)],
                    SubSeq(listeners, 1, n), 1)

\* C34: in every reachable state and for every action a, if the calls of
\* the listeners before it in the pass of dispatch(a), and whatever these
\* set, refreshed or dispatched, disposed a component that was not Disposed
\* when the pass started, then the call of the component's
\* use_store_selector listener, which is still in the snapshot, does
\* nothing: it does not call the selector, the setter or on_state_changed,
\* sets no Observable, raises nothing and leaves every field as it was.
C34_DisposedListenerIsInert ==
    \A a \in Actions : \A n \in 0..(Len(listeners) - 1) :
        LET cb == listeners[n + 1]
            before == BeforeListener(a, n)
        IN (/\ cb.kind = "sel"
            /\ ~disposed[cb.c]
            /\ before.disposed[cb.c]
            /\ before.exc = ""
            /\ ~before.full)
           => InvokeListener(before, cb)
                  = Emit(before, CallEvent("listener", cb, None, ""))

\* K shows A, both bound to the status, and the list is empty: the pass of
\* SET_STATUS "Busy" calls K's listener, whose refresh removes and disposes
\* A, and then A's listener, which leaves A's Observable on "Ready"
C34_Witness ==
    /\ state.status = "Ready"
    /\ ~disposed["K"] /\ ~disposed["A"]
    /\ children_eager["K"] = <<>>
    /\ \E k \in ListenersOf(World, "K") : \E j \in ListenersOf(World, "A") :
           /\ k < j
           /\ observables[listeners[j].o].value = "Ready"
           /\ LET r == dispatch(World, Action("SET_STATUS", "Busy"))
              IN /\ r.exc = ""
                 /\ r.disposed["A"]
                 /\ r.log[Len(r.log)] = CallEvent("listener", listeners[j],
                                                  None, "")
                 /\ \E d \in DOMAIN r.log : DisposedAt(r.log, "A", d)
                 /\ r.observables[listeners[j].o].value = "Ready"
                 /\ r.observables[listeners[k].o].value = "Busy"

====
